---- MODULE Spec2Model ----
(***************************************************************************)
(* LispALike (DavidSpickett/ExpressionCompiler): the evaluation core.      *)
(*                                                                         *)
(* The repository holds two interpreters for the same language:            *)
(*   src/main.py   the self-contained interpreter that main.py, the flask  *)
(*                 front end and run_examples.py run: the forms and the    *)
(*                 recursive Call.execute;                                  *)
(*   src/calls.py  the forms rewritten for the protocol resolve -> prepare *)
(*                 -> evaluate children -> apply (can_prepare, sort_args,  *)
(*                 validate_on_resolve), driven by the function            *)
(*                 execute(call, scope, global_scope) that src/tests.py    *)
(*                 exercises.                                              *)
(* A run picks one of them (variable impl) and a program (variable prog).  *)
(*                                                                         *)
(* Python values are tagged records; a Python str is the sequence of its   *)
(* characters, so that startswith, [1:] and int() are computed.            *)
(***************************************************************************)
EXTENDS Integers, Sequences, FiniteSets, TLC

VARIABLES
    impl,       \* "main" (src/main.py) or "calls" (src/calls.py)
    prog,       \* the program: [fam, p, blocks], blocks = the parts of each top-level call
    idx,        \* run_source_inner: number of top-level blocks consumed
    mach,       \* what a run can change: global scope, scope objects, output, error, log
    stack,      \* execute (calls): the frames, innermost last
    result,     \* run_source_inner: result of the last block executed
    phase,      \* "idle" between blocks, "exec" inside execute, "done" after return/raise
    earlier     \* how the earlier runs of this process ended, oldest first

vars == <<impl, prog, idx, mach, stack, result, phase, earlier>>

(***************************************************************************)
(* Bounds of the model.                                                    *)
(***************************************************************************)
\* Python gives up a recursion that is too deep; the model gives up earlier.
MaxDepth == 6
\* how many times a program is run in one process
MaxRuns == 2

(***************************************************************************)
(* Values.                                                                 *)
(***************************************************************************)
I(n) == [t |-> "int", v |-> n]
S(chars) == [t |-> "str", v |-> chars]
B(b) == [t |-> "bool", v |-> b]
Tup(s) == [t |-> "tuple", v |-> s]
StringVar(chars) == [t |-> "strvar", v |-> chars]
None == [t |-> "none"]

EmptyDict == [k \in {} |-> None]
DictSet(d, k, v) == [x \in (DOMAIN d) \cup {k} |-> IF x = k THEN v ELSE d[x]]
\* dict.update(other)
DictUpdate(d, other) ==
    [x \in (DOMAIN d) \cup (DOMAIN other) |-> IF x \in DOMAIN other THEN other[x] ELSE d[x]]

IsCallNode(a) == a.t = "call"
IsClass(a) == a.t = "class"

\* bool(v)
truthy(v) ==
    CASE v.t = "int" -> v.v # 0
      [] v.t = "bool" -> v.v
      [] v.t = "none" -> FALSE
      [] v.t \in {"str", "tuple", "strvar"} -> Len(v.v) > 0
      [] OTHER -> TRUE

IsNum(v) == v.t \in {"int", "bool"}
Num(v) == IF v.t = "int" THEN v.v ELSE IF v.v THEN 1 ELSE 0

\* ==: bool is an int in Python, everything else modelled here is compared by value
\* (a class by its identity, which is its id).
PyEq(a, b) == IF IsNum(a) /\ IsNum(b) THEN Num(a) = Num(b) ELSE a = b

(***************************************************************************)
(* Errors: the exception a run ends with.                                  *)
(***************************************************************************)
\* kind: which exception; sym: the symbol or function it names; call: the call it
\* prints; n: the argument count it reports.
NoErr == [kind |-> "ok", sym |-> None, call |-> None, n |-> 0]
ErrN(kind, sym, call, n) == [kind |-> kind, sym |-> sym, call |-> call, n |-> n]
Err(kind, sym, call) == ErrN(kind, sym, call, 0)
Ok(m) == m.err.kind = "ok"
Fail(m, e) == [m EXCEPT !.err = e]

(***************************************************************************)
(* str -> int, as int() does for the tokens the tokenizer can produce:     *)
(* an optional sign and at least one decimal digit.                        *)
(***************************************************************************)
Digits == <<"0", "1", "2", "3", "4", "5", "6", "7", "8", "9">>
IsDigit(c) == \E i \in 1..10 : Digits[i] = c
DigitVal(c) == (CHOOSE i \in 1..10 : Digits[i] = c) - 1

RECURSIVE NatOf(_)
NatOf(cs) == IF cs = <<>> THEN 0
             ELSE 10 * NatOf(SubSeq(cs, 1, Len(cs) - 1)) + DigitVal(cs[Len(cs)])

AllDigits(cs) == Len(cs) > 0 /\ \A i \in 1..Len(cs) : IsDigit(cs[i])

IsIntToken(cs) ==
    \/ AllDigits(cs)
    \/ Len(cs) > 1 /\ cs[1] \in {"+", "-"} /\ AllDigits(Tail(cs))

IntOfToken(cs) ==
    IF cs[1] = "-" THEN 0 - NatOf(Tail(cs))
    ELSE IF cs[1] = "+" THEN NatOf(Tail(cs))
    ELSE NatOf(cs)

startswith(cs, c) == Len(cs) > 0 /\ cs[1] = c

(***************************************************************************)
(* lookup_var: the resolver. Returns [err, expand, val].                   *)
(***************************************************************************)
LookupResult(e, x, v) == [err |-> e, expand |-> x, val |-> v]

\* lookup_var asking the global scope first
lookup_var_global_first(scope, global_scope, arg, current_call) ==
    IF arg.t = "strvar" \/ arg.t # "str" THEN LookupResult(NoErr, FALSE, arg)
    ELSE IF startswith(arg.v, "'") THEN LookupResult(NoErr, FALSE, S(Tail(arg.v)))
    ELSE IF IsIntToken(arg.v) THEN LookupResult(NoErr, FALSE, I(IntOfToken(arg.v)))
    ELSE LET expand == startswith(arg.v, "*") /\ Len(arg.v) > 1
             name == IF expand THEN S(Tail(arg.v)) ELSE arg
         IN  IF name \in DOMAIN global_scope
             THEN LookupResult(NoErr, expand, global_scope[name])
             ELSE IF name \in DOMAIN scope THEN LookupResult(NoErr, expand, scope[name])
             ELSE LookupResult(Err("UnknownSymbol", name, current_call), FALSE, None)

\* src/calls.py
lookup_var(scope, global_scope, arg, current_call) ==
    IF arg.t = "strvar" \/ arg.t # "str" THEN LookupResult(NoErr, FALSE, arg)
    ELSE IF startswith(arg.v, "'") THEN LookupResult(NoErr, FALSE, S(Tail(arg.v)))
    ELSE IF IsIntToken(arg.v) THEN LookupResult(NoErr, FALSE, I(IntOfToken(arg.v)))
    ELSE LET expand == startswith(arg.v, "*") /\ Len(arg.v) > 1
             name == IF expand THEN S(Tail(arg.v)) ELSE arg
         IN  IF name \in DOMAIN scope THEN LookupResult(NoErr, expand, scope[name])
             ELSE IF name \in DOMAIN global_scope
                  THEN LookupResult(NoErr, expand, global_scope[name])
             ELSE LookupResult(Err("UnknownSymbol", name, current_call), FALSE, None)

\* src/main.py
main_lookup_var(scope, global_scope, arg, current_call) ==
    IF arg.t = "str" THEN
        IF startswith(arg.v, "'") THEN LookupResult(NoErr, FALSE, S(Tail(arg.v)))
        ELSE IF IsIntToken(arg.v) THEN LookupResult(NoErr, FALSE, I(IntOfToken(arg.v)))
        ELSE LET expand == startswith(arg.v, "*") /\ Len(arg.v) > 1
                 name == IF expand THEN S(Tail(arg.v)) ELSE arg
             IN  IF name \in DOMAIN scope THEN LookupResult(NoErr, expand, scope[name])
                 ELSE IF name \in DOMAIN global_scope
                      THEN LookupResult(NoErr, expand, global_scope[name])
                 ELSE LookupResult(Err("UnknownSymbol", name, current_call), FALSE, None)
    ELSE LookupResult(NoErr, FALSE, arg)

(***************************************************************************)
(* Classes (the forms) and call nodes.                                     *)
(* A class: kind (which Python class, "user" for a type(...) made by       *)
(* defun), id (its identity: 0 for a built-in), the class attributes.      *)
(* vor is validate_on_resolve (calls.py) / validate_on_prepare (main.py).  *)
(***************************************************************************)
Builtin(kind, name, exact, num_args, vor) ==
    [t |-> "class", kind |-> kind, id |-> 0, name |-> S(name), exact |-> exact,
     num_args |-> num_args, vor |-> vor, arg_names |-> <<>>, variadic |-> FALSE,
     body |-> None, captures |-> EmptyDict]

NotCall == Builtin("not", <<"n", "o", "t">>, TRUE, 1, FALSE)
EqualCall == Builtin("eq", <<"e", "q">>, FALSE, 2, FALSE)
LessThanCall == Builtin("lt", <<"<">>, TRUE, 2, FALSE)
NoneCall == Builtin("none", <<"n", "o", "n", "e">>, FALSE, 0, FALSE)
TrueCall == Builtin("true", <<"t", "r", "u", "e">>, FALSE, 0, FALSE)
CondCall == Builtin("cond", <<"c", "o", "n", "d">>, FALSE, 2, TRUE)
IfCall == Builtin("if", <<"i", "f">>, FALSE, 2, TRUE)
PlusCall == Builtin("plus", <<"+">>, FALSE, 1, FALSE)
MinusCall == Builtin("minus", <<"-">>, FALSE, 1, FALSE)
PrintCall == Builtin("print", <<"p", "r", "i", "n", "t">>, FALSE, 0, FALSE)
LetCall == Builtin("let", <<"l", "e", "t">>, TRUE, 3, TRUE)
FlattenCall == Builtin("flatten", <<"f", "l", "a", "t", "t", "e", "n">>, TRUE, 1, FALSE)
DefineFunctionCall == Builtin("defun", <<"d", "e", "f", "u", "n">>, FALSE, 2, TRUE)
LambdaFunctionCall == Builtin("lambda", <<"l", "a", "m", "b", "d", "a">>, FALSE, 2, TRUE)
\* MaybeFunctionCall: num_args = 1 with the name as args[0] (calls.py), 0 (main.py)
MaybeFunctionCall == Builtin("maybe", <<>>, FALSE, 1, FALSE)
main_MaybeFunctionCall == Builtin("maybe", <<>>, FALSE, 0, FALSE)

SharedBuiltins ==
    {NotCall, EqualCall, LessThanCall, NoneCall, TrueCall, CondCall, IfCall, PlusCall,
     MinusCall, PrintCall, LetCall, DefineFunctionCall, FlattenCall}

TableOf(classes) == [n \in {c.name : c \in classes} |-> CHOOSE c \in classes : c.name = n]

\* builtin_calls = {v.name: v for v in subclasses(Call)}: lambda is reached through
\* DefineFunctionCall. (The entry "" of BaseUserCall/MaybeFunctionCall is left out:
\* no token is the empty string.)
builtin_calls == TableOf(SharedBuiltins \cup {LambdaFunctionCall})
\* builtin_calls = {v.name: v for v in Call.__subclasses__()}
main_builtin_calls == TableOf(SharedBuiltins)

\* Call.__init__ : a node. name is MaybeFunctionCall's self.name; body and variadic
\* are DefineFunctionCall's.
Node(cls, args, name, variadic) ==
    [t |-> "call", cls |-> cls, args |-> args, name |-> name, variadic |-> variadic,
     body |-> None, resolved_symbols |-> FALSE, prepared |-> FALSE, obj |-> 0]

IndexOf(seq, x) == CHOOSE i \in 1..Len(seq) : seq[i] = x /\ \A j \in 1..(i - 1) : seq[j] # x
Contains(seq, x) == \E i \in 1..Len(seq) : seq[i] = x

StarParam == S(<<"'", "*">>)
Star == S(<<"*">>)

\* cls(*args): Call.__init__, and for defun/lambda DefineFunctionCall.__init__.
\* Returns [err, node].
Instantiate(cls, args) ==
    IF cls.kind \in {"defun", "lambda"} THEN
        IF Contains(args, StarParam) THEN
            \* args.index(var) != len(args)-2, zero-based
            IF IndexOf(args, StarParam) - 1 # Len(args) - 2
            THEN [err |-> Err("StarNotLast", StarParam, None), node |-> None]
            ELSE [err |-> NoErr, node |-> Node(cls, args, cls.name, TRUE)]
        ELSE [err |-> NoErr, node |-> Node(cls, args, cls.name, FALSE)]
    ELSE [err |-> NoErr, node |-> Node(cls, args, cls.name, FALSE)]

\* make_call of src/main.py: the selector is looked up in global_scope when the call
\* is parsed; a selector that is not there (or is itself a call) makes a
\* MaybeFunctionCall.
main_make_call(fn_name, args, global_scope) ==
    IF fn_name.t = "str" /\ fn_name \in DOMAIN global_scope
    THEN Instantiate(global_scope[fn_name], args)
    ELSE [err |-> NoErr, node |-> Node(main_MaybeFunctionCall, args, fn_name, FALSE)]

\* make_call that leaves every selector to be looked up when the call is evaluated
make_call_deferred(fn_name, args, global_scope) ==
    [err |-> NoErr, node |-> Node(MaybeFunctionCall, <<fn_name>> \o args, fn_name, FALSE)]

\* The same make_call in front of calls.py, whose MaybeFunctionCall.__init__(*args)
\* keeps the name as args[0].
make_call(fn_name, args, global_scope) ==
    IF fn_name.t = "str" /\ fn_name \in DOMAIN global_scope
    THEN Instantiate(global_scope[fn_name], args)
    ELSE [err |-> NoErr,
          node |-> Node(MaybeFunctionCall, <<fn_name>> \o args, fn_name, FALSE)]

(***************************************************************************)
(* process_call on the parts the tokenizer found: a part is a token (str)  *)
(* or a nested call [t |-> "tree", parts]. Returns [err, node].            *)
(***************************************************************************)
Tree(parts) == [t |-> "tree", parts |-> parts]

RECURSIVE process_call(_, _, _)
RECURSIVE process_parts(_, _, _, _, _)

\* the while loop of process_call: the nested calls first, in order
process_parts(parts, i, acc, global_scope, calls) ==
    IF i > Len(parts) THEN [err |-> NoErr, parts |-> acc]
    \* the text ended here, or did not start a call: the exception of process_call
    ELSE IF parts[i].t = "bad" THEN [err |-> Err(parts[i].kind, parts[i].sym, None), parts |-> acc]
    ELSE IF parts[i].t = "tree" THEN
        LET sub == process_call(parts[i], global_scope, calls)
        IN  IF sub.err.kind # "ok" THEN [err |-> sub.err, parts |-> acc]
            ELSE process_parts(parts, i + 1, Append(acc, sub.node), global_scope, calls)
    ELSE process_parts(parts, i + 1, Append(acc, parts[i]), global_scope, calls)

process_call(tree, global_scope, calls) ==
    LET ps == process_parts(IF tree.t = "bad" THEN <<tree>> ELSE tree.parts, 1, <<>>,
                            global_scope, calls)
    IN  IF ps.err.kind # "ok" THEN [err |-> ps.err, node |-> None]
        ELSE IF Len(ps.parts) = 0 THEN [err |-> Err("IndexError", None, None), node |-> None]
        ELSE IF calls
             THEN make_call(ps.parts[1], Tail(ps.parts), global_scope)
             ELSE main_make_call(ps.parts[1], Tail(ps.parts), global_scope)

(***************************************************************************)
(* From the source text to the parts: normalise, get_symbol and the scan   *)
(* of process_call over the characters. Where process_call raises, the     *)
(* parts end with a part [t |-> "bad", kind, sym] that stands for the      *)
(* exception, so that it is raised after the calls to its left are made.   *)
(***************************************************************************)
Bad(kind, sym) == [t |-> "bad", kind |-> kind, sym |-> sym]
\* string.whitespace
whitespace == {" ", "\t", "\n", "\r"}

\* re.sub(r"#.*(\n)?", "", source): a comment goes, up to and with its newline
RECURSIVE remove_comments(_, _)
remove_comments(cs, inside) ==
    IF cs = <<>> THEN <<>>
    ELSE IF inside THEN remove_comments(Tail(cs), cs[1] # "\n")
    ELSE IF cs[1] = "#" THEN remove_comments(Tail(cs), TRUE)
    ELSE <<cs[1]>> \o remove_comments(Tail(cs), FALSE)

\* re.sub(r"\s+", " ", ..): a run of whitespace becomes one space
RECURSIVE collapse_spaces(_)
collapse_spaces(cs) ==
    IF cs = <<>> THEN <<>>
    ELSE IF cs[1] \in whitespace
         THEN IF Len(cs) > 1 /\ cs[2] \in whitespace THEN collapse_spaces(Tail(cs))
              ELSE <<" ">> \o collapse_spaces(Tail(cs))
    ELSE <<cs[1]>> \o collapse_spaces(Tail(cs))

\* re.sub(r"\s*([\(\)])\s*", r"\g<1>", ..) of a text whose whitespace is single
\* spaces: a space next to a bracket goes
strip_brackets(cs) ==
    LET keep == { i \in 1..Len(cs) :
                    ~(/\ cs[i] = " "
                      /\ \/ i > 1 /\ cs[i - 1] \in {"(", ")"}
                         \/ i < Len(cs) /\ cs[i + 1] \in {"(", ")"}) }
        nth(k) == CHOOSE i \in keep : Cardinality({j \in keep : j <= i}) = k
    IN  [k \in 1..Cardinality(keep) |-> cs[nth(k)]]

normalise(source) == strip_brackets(collapse_spaces(remove_comments(source, FALSE)))

\* get_symbol(src, idx), idx from 1: [symbol, pos]
RECURSIVE get_symbol_scan(_, _, _, _)
get_symbol_scan(src, pos, delimiters, symbol) ==
    IF pos <= Len(src) /\ src[pos] \notin delimiters
    THEN get_symbol_scan(src, pos + 1, delimiters, Append(symbol, src[pos]))
    ELSE [symbol |-> symbol, pos |-> pos]
get_symbol(src, pos) ==
    IF src[pos] = "\""
    THEN LET g == get_symbol_scan(src, pos + 1, {"\""}, <<>>)
         IN  [symbol |-> <<"'">> \o g.symbol, pos |-> g.pos + 1]
    ELSE get_symbol_scan(src, pos, {"(", ")"} \cup whitespace, <<>>)

\* process_call(src, idx, ..) as far as the text goes, src[idx - 1] = "(" :
\* [tree, pos, bad]. A text that ends with parts found raises the unterminated-call
\* error; one that ends with none falls out of the loop and returns None, which
\* the caller fails to unpack (TypeError).
RECURSIVE scan_call(_, _, _)
scan_call(src, pos, parts) ==
    IF pos > Len(src)
    THEN [tree |-> Tree(Append(parts, IF parts # <<>> THEN Bad("Unterminated", parts[1])
                                      ELSE Bad("TypeError", None))),
          pos |-> pos, bad |-> TRUE]
    ELSE IF src[pos] = "("
         THEN LET sub == scan_call(src, pos + 1, <<>>)
              IN  IF sub.bad
                  THEN [tree |-> Tree(Append(parts, sub.tree)), pos |-> sub.pos, bad |-> TRUE]
                  ELSE scan_call(src, sub.pos, Append(parts, sub.tree))
    ELSE IF src[pos] = ")" THEN [tree |-> Tree(parts), pos |-> pos + 1, bad |-> FALSE]
    ELSE IF src[pos] \in whitespace THEN scan_call(src, pos + 1, parts)
    ELSE LET g == get_symbol(src, pos)
         IN  scan_call(src, g.pos, Append(parts, [t |-> "str", v |-> g.symbol]))

\* the top-level calls that the loop of run_source_inner finds in a normalised
\* text, up to the first one that raises
RECURSIVE scan_source(_, _, _)
scan_source(src, pos, blocks) ==
    IF pos > Len(src) THEN blocks
    ELSE IF src[pos] # "(" THEN Append(blocks, Bad("CallMustBegin", None))
    ELSE LET c == scan_call(src, pos + 1, <<>>)
         IN  IF c.bad THEN Append(blocks, c.tree)
             ELSE scan_source(src, c.pos, Append(blocks, c.tree))

(***************************************************************************)
(* The machine: what evaluation reads and writes.                          *)
(*   glob  global_scope, name -> class                                     *)
(*   heap  the scope dicts that exist, by identity (a scope passed on is   *)
(*         the same object; copy(scope) and dict() make a new one)         *)
(*   out   the lines printed                                               *)
(*   err   the exception raised, NoErr while none                          *)
(*   nid   identity of the next class made by type(...)                    *)
(*   val   the value just returned                                         *)
(*   log   what happened, for the properties: see the Ev operators        *)
(*   stored  the flags of the node object each user class keeps as its     *)
(*         body, by the identity of the class (src/calls.py)               *)
(***************************************************************************)
Machine(glob) ==
    [glob |-> glob, heap |-> <<>>, out |-> <<>>, err |-> NoErr, nid |-> 1,
     val |-> None, log |-> <<>>, stored |-> <<>>]

Ret(m, v) == [m EXCEPT !.val = v]
Log(m, ev) == [m EXCEPT !.log = Append(@, ev)]
\* a new dict object holding d; its identity is Len(heap) + 1
NewScope(m, d) == [m EXCEPT !.heap = Append(@, d)]

\* what `for x in v` yields, where v can be iterated
Iterable(v) == v.t \in {"tuple", "str", "strvar"}
Elements(v) ==
    CASE v.t = "tuple" -> v.v
      [] v.t = "str" -> [i \in 1..Len(v.v) |-> S(<<v.v[i]>>)]
      [] v.t = "strvar" -> [i \in 1..Len(v.v) |-> StringVar(<<v.v[i]>>)]

\* _flatten of FlattenCall.apply, the loop `for l in _ls` from element i on: what
\* it adds to flat. An element that iter() accepts is flattened by a nested call,
\* a string as well (its elements are strings of one character, which hold
\* themselves: the nesting ends at the recursion limit); with string_vars, a
\* StringVar is appended as it is (src/calls.py). Returns [err, flat].
RECURSIVE FlattenCall_flatten(_, _, _, _, _, _)
FlattenCall_flatten(els, i, flat, call, depth, string_vars) ==
    IF i > Len(els) THEN [err |-> NoErr, flat |-> flat]
    ELSE IF string_vars /\ els[i].t = "strvar"
         THEN FlattenCall_flatten(els, i + 1, Append(flat, els[i]), call, depth, string_vars)
    ELSE IF ~Iterable(els[i])
         THEN FlattenCall_flatten(els, i + 1, Append(flat, els[i]), call, depth, string_vars)
    ELSE IF depth >= MaxDepth THEN [err |-> Err("RecursionError", None, call), flat |-> flat]
    ELSE LET nested == FlattenCall_flatten(Elements(els[i]), 1, flat, call, depth + 1,
                                           string_vars)
         IN  IF nested.err.kind # "ok" THEN nested
             ELSE FlattenCall_flatten(els, i + 1, nested.flat, call, depth, string_vars)

\* FlattenCall.apply of src/calls.py: [err, val]
FlattenCall_apply(call, args) ==
    IF ~Iterable(args[1]) THEN [err |-> Err("FlattenNotList", None, call), val |-> None]
    ELSE LET r == FlattenCall_flatten(Elements(args[1]), 1, <<>>, call, 1, TRUE)
         IN  [err |-> r.err, val |-> IF r.err.kind = "ok" THEN Tup(r.flat) ELSE None]

\* FlattenCall.apply of src/main.py
main_FlattenCall_apply(call, args) ==
    IF ~Iterable(args[1]) THEN [err |-> Err("FlattenNotList", None, call), val |-> None]
    ELSE LET r == FlattenCall_flatten(Elements(args[1]), 1, <<>>, call, 1, FALSE)
         IN  [err |-> r.err, val |-> IF r.err.kind = "ok" THEN Tup(r.flat) ELSE None]

(***************************************************************************)
(* Built-in apply methods that both files define alike.                    *)
(* Each returns [err, val].                                                *)
(***************************************************************************)
Val(v) == [err |-> NoErr, val |-> v]
TypeError(call) == [err |-> Err("TypeError", None, call), val |-> None]

\* operator.add
Add(a, b, call) ==
    IF IsNum(a) /\ IsNum(b) THEN Val(I(Num(a) + Num(b)))
    ELSE IF a.t = b.t /\ a.t \in {"str", "tuple", "strvar"}
         THEN Val([t |-> a.t, v |-> a.v \o b.v])
    ELSE TypeError(call)

\* operator.sub
Sub(a, b, call) ==
    IF IsNum(a) /\ IsNum(b) THEN Val(I(Num(a) - Num(b))) ELSE TypeError(call)

\* functools.reduce(op, args) for op in {add, sub}
RECURSIVE Reduce(_, _, _, _, _)
Reduce(isAdd, acc, args, i, call) ==
    IF i > Len(args) THEN Val(acc)
    ELSE LET r == IF isAdd THEN Add(acc, args[i], call) ELSE Sub(acc, args[i], call)
         IN  IF r.err.kind # "ok" THEN r ELSE Reduce(isAdd, r.val, args, i + 1, call)

PlusCall_apply(call, args) ==
    IF Len(args) = 0 THEN TypeError(call) ELSE Reduce(TRUE, args[1], args, 2, call)

MinusCall_apply(call, args) ==
    IF Len(args) = 0 THEN TypeError(call)
    ELSE IF Len(args) = 1
         THEN (IF IsNum(args[1]) THEN Val(I(0 - Num(args[1]))) ELSE TypeError(call))
    ELSE Reduce(FALSE, args[1], args, 2, call)

\* len(set(args)) == 1
EqualCall_apply(call, args) ==
    Val(B(Len(args) > 0 /\ \A i \in 1..Len(args) : PyEq(args[i], args[1])))

NotCall_apply(call, args) ==
    IF Len(args) # 1 THEN TypeError(call) ELSE Val(B(~truthy(args[1])))

LessThanCall_apply(call, args) ==
    IF Len(args) # 2 \/ ~IsNum(args[1]) \/ ~IsNum(args[2]) THEN TypeError(call)
    ELSE Val(B(Num(args[1]) < Num(args[2])))

\* Call.validate_args (the same text in both files)
Call_validate_args(call, final_args) ==
    IF \/ call.cls.exact /\ Len(final_args) # call.cls.num_args
       \/ ~call.cls.exact /\ Len(final_args) < call.cls.num_args
    THEN ErrN("Arity", call.cls.name, call, Len(final_args))
    ELSE NoErr

\* a let that only asks for three arguments or more
LetCall_validate_args_min_only(call, final_args) ==
    IF Len(final_args) < 3 THEN ErrN("LetArity", call.cls.name, call, Len(final_args))
    ELSE NoErr

\* LetCall.validate_args (the same text in both files)
LetCall_validate_args(call, final_args) ==
    IF Len(final_args) < 3 THEN ErrN("LetArity", call.cls.name, call, Len(final_args))
    ELSE IF Len(final_args) % 2 = 0
         THEN ErrN("LetArity", call.cls.name, call, Len(final_args))
    ELSE NoErr

\* a cond that only asks for two arguments or more
CondCall_validate_args_min_only(call, final_args) ==
    IF Len(final_args) < 2 THEN ErrN("CondArity", call.cls.name, call, Len(final_args))
    ELSE NoErr

\* CondCall.validate_args (the same text in both files)
CondCall_validate_args(call, final_args) ==
    IF Len(final_args) < 2 THEN ErrN("CondArity", call.cls.name, call, Len(final_args))
    ELSE IF Len(final_args) % 2 = 1
         THEN ErrN("CondArity", call.cls.name, call, Len(final_args))
    ELSE NoErr

(***************************************************************************)
(* The log. Each event is written where the code does the thing.           *)
(***************************************************************************)
\* a name was looked up: what local and global held for it, what came back
EvLookup(name, scope, global_scope, r) ==
    [e |-> "lookup", name |-> name,
     local |-> IF name \in DOMAIN scope THEN <<scope[name]>> ELSE <<>>,
     global |-> IF name \in DOMAIN global_scope THEN <<global_scope[name]>> ELSE <<>>,
     ret |-> r]
\* a let call is over (returned, or raised): the enclosing scope before and after,
\* the names and values it bound, how it ended and with what value
EvLet(before, after, bound, err, val) ==
    [e |-> "let", before |-> before, after |-> after, bound |-> bound, err |-> err,
     val |-> val]
\* the body of a user function starts: the function, the caller's scope, the body's
EvCall(cls, caller, scope) == [e |-> "call", cls |-> cls, caller |-> caller, scope |-> scope]
\* defun/lambda applied: the class it made
EvDefun(cls) == [e |-> "defun", cls |-> cls]
\* a top-level block starts: its position, the local scope and the global it gets
EvBlock(i, local, global_scope) ==
    [e |-> "block", idx |-> i, local |-> local, global |-> global_scope]
\* the entry point was entered: Call.execute of a node (main.py), execute(call, ..)
EvExecute(call) == [e |-> "execute", call |-> call]
\* execute, already running, paused a frame and pivoted to a child node
EvPivot(call) == [e |-> "pivot", call |-> call]
\* a node's apply ran: its class, the arguments, the value
EvApply(call, args, val) == [e |-> "apply", call |-> call, args |-> args, val |-> val]

IsName(arg) ==
    arg.t = "str" /\ ~startswith(arg.v, "'") /\ ~IsIntToken(arg.v)
NameOf(arg) ==
    IF startswith(arg.v, "*") /\ Len(arg.v) > 1 THEN S(Tail(arg.v)) ELSE arg

(***************************************************************************)
(* src/main.py: Call.execute and the forms' prepare and apply.             *)
(* An operator takes the machine and returns it changed; the value is in   *)
(* val. Once err is set nothing further runs (the exception propagates).   *)
(***************************************************************************)
RECURSIVE main_execute(_, _, _, _)
RECURSIVE main_execute_args(_, _, _, _, _, _)
RECURSIVE main_LetCall_bind(_, _, _, _, _, _)
RECURSIVE main_CondCall_scan(_, _, _, _, _)
RECURSIVE main_apply(_, _, _, _, _)

\* "First resolve all symbols": sym_args. Returns [m, args].
RECURSIVE main_resolve_args(_, _, _, _, _)
main_resolve_args(call, i, acc, sid, m) ==
    IF i > Len(call.args) THEN [m |-> m, args |-> acc]
    ELSE LET arg == call.args[i]
             r == main_lookup_var(m.heap[sid], m.glob, arg, call)
             m1 == IF IsName(arg)
                   THEN Log(m, EvLookup(NameOf(arg), m.heap[sid], m.glob, r))
                   ELSE m
         IN  IF r.err.kind # "ok" THEN [m |-> Fail(m1, r.err), args |-> acc]
             ELSE IF r.expand THEN
                 IF Iterable(r.val)
                 THEN main_resolve_args(call, i + 1, acc \o Elements(r.val), sid, m1)
                 ELSE [m |-> Fail(m1, Err("TypeError", None, call)), args |-> acc]
             ELSE main_resolve_args(call, i + 1, Append(acc, r.val), sid, m1)

\* arg.execute(scope, global_scope) if arg is a Call, else arg
main_value_of(arg, sid, m, depth) ==
    IF IsCallNode(arg) THEN main_execute(arg, sid, m, depth + 1) ELSE Ret(m, arg)

\* LetCall.prepare: [m, args, sid, call]
main_LetCall_bind(kv, i, new_args, sid, m, depth) ==
    IF ~Ok(m) \/ i > Len(kv) THEN [m |-> m, args |-> new_args]
    \* pairs(it): it[i + 1] past the end
    ELSE IF i = Len(kv) THEN [m |-> Fail(m, Err("IndexError", None, None)), args |-> new_args]
    ELSE LET m1 == main_value_of(kv[i + 1], sid, m, depth)
         IN  IF ~Ok(m1) THEN [m |-> m1, args |-> new_args]
             ELSE main_LetCall_bind(kv, i + 2, Append(new_args, m1.val), sid,
                                    [m1 EXCEPT !.heap[sid] = DictSet(@, kv[i], m1.val)],
                                    depth)

main_LetCall_prepare(call, args, sid, m, depth) ==
    LET m1 == NewScope(m, m.heap[sid])
        sid2 == Len(m1.heap)
        r == main_LetCall_bind(SubSeq(args, 1, Len(args) - 1), 1, <<>>, sid2, m1, depth)
    IN  [m |-> r.m, args |-> Append(r.args, args[Len(args)]), sid |-> sid2, call |-> call]

main_IfCall_prepare(call, args, sid, m, depth) ==
    LET m1 == main_value_of(args[1], sid, m, depth)
        new_args == IF ~Ok(m1) THEN <<>>
                    ELSE IF truthy(m1.val) THEN <<args[2]>>
                    ELSE IF Len(args) = 3 THEN <<args[3]>>
                    ELSE <<>>
    IN  [m |-> m1, args |-> new_args, sid |-> sid, call |-> call]

main_CondCall_scan(args, i, sid, m, depth) ==
    IF ~Ok(m) \/ i > Len(args) THEN [m |-> m, args |-> <<>>]
    \* pairs(it): it[i + 1] past the end
    ELSE IF i = Len(args) THEN [m |-> Fail(m, Err("IndexError", None, None)), args |-> <<>>]
    ELSE LET m1 == main_value_of(args[i], sid, m, depth)
         IN  IF ~Ok(m1) THEN [m |-> m1, args |-> <<>>]
             ELSE IF truthy(m1.val) THEN [m |-> m1, args |-> <<args[i + 1]>>]
             ELSE main_CondCall_scan(args, i + 2, sid, m1, depth)

main_CondCall_prepare(call, args, sid, m, depth) ==
    LET r == main_CondCall_scan(args, 1, sid, m, depth)
    IN  [m |-> r.m, args |-> r.args, sid |-> sid, call |-> call]

main_DefineFunctionCall_prepare(call, args, sid, m, depth) ==
    [m |-> m, args |-> SubSeq(args, 1, Len(args) - 1), sid |-> sid,
     call |-> [call EXCEPT !.body = args[Len(args)]]]

\* Call.prepare
main_Call_prepare(call, args, sid, m, depth) ==
    [m |-> m, args |-> args, sid |-> sid, call |-> call]

main_prepare(call, args, sid, m, depth) ==
    CASE call.cls.kind = "let" -> main_LetCall_prepare(call, args, sid, m, depth)
      [] call.cls.kind = "if" -> main_IfCall_prepare(call, args, sid, m, depth)
      [] call.cls.kind = "cond" -> main_CondCall_prepare(call, args, sid, m, depth)
      [] call.cls.kind = "defun" -> main_DefineFunctionCall_prepare(call, args, sid, m, depth)
      [] OTHER -> main_Call_prepare(call, args, sid, m, depth)

main_validate_args(call, final_args) ==
    CASE call.cls.kind = "let" -> LetCall_validate_args(call, final_args)
      [] call.cls.kind = "cond" -> CondCall_validate_args(call, final_args)
      [] OTHER -> Call_validate_args(call, final_args)

\* "Then resolve the calls using the updated scope": resolved_args. Returns [m, args].
main_execute_args(args, i, acc, sid, m, depth) ==
    IF ~Ok(m) \/ i > Len(args) THEN [m |-> m, args |-> acc]
    ELSE LET m1 == main_value_of(args[i], sid, m, depth)
         IN  main_execute_args(args, i + 1, Append(acc, m1.val), sid, m1, depth)

\* the loop of BaseUserCall.apply over arg_names: [err, scope]
RECURSIVE main_bind_params(_, _, _, _, _)
main_bind_params(cls, call, args, i, scope) ==
    IF i > Len(cls.arg_names) THEN [err |-> NoErr, scope |-> scope]
    ELSE IF cls.arg_names[i] = Star
         THEN [err |-> NoErr,
               scope |-> DictSet(scope, Star, Tup(SubSeq(args, i, Len(args))))]
    ELSE IF i > Len(args)
         THEN [err |-> ErrN("WrongNumber", cls.name, call, Len(args)), scope |-> scope]
    ELSE main_bind_params(cls, call, args, i + 1, DictSet(scope, cls.arg_names[i], args[i]))

\* the scope a user function's body starts from, before the parameters are bound
main_BaseUserCall_scope(cls, caller_scope) == caller_scope

main_BaseUserCall_apply(call, args, sid, m, depth) ==
    LET cls == call.cls
        base == main_BaseUserCall_scope(cls, m.heap[sid])
        s0 == IF Len(cls.arg_names) > 0 /\ cls.arg_names[Len(cls.arg_names)] = Star
              THEN DictSet(base, Star, Tup(<<>>))
              ELSE base
        b == main_bind_params(cls, call, args, 1, s0)
        m1 == NewScope(m, b.scope)
        sid2 == Len(m1.heap)
    IN  IF b.err.kind # "ok" THEN Fail(m, b.err)
        ELSE IF ~IsCallNode(cls.body) THEN Fail(m1, Err("AttributeError", None, call))
        ELSE main_execute(cls.body, sid2, Log(m1, EvCall(cls, m.heap[sid], b.scope)), depth + 1)

main_DefineFunctionCall_apply(call, args, sid, m, depth) ==
    IF Len(args) = 0 THEN Fail(m, Err("IndexError", None, call))
    ELSE LET params == Tail(args)
             cls == [t |-> "class", kind |-> "user", id |-> m.nid, name |-> args[1],
                     exact |-> ~call.variadic,
                     num_args |-> IF call.variadic THEN 0 ELSE Len(params),
                     vor |-> FALSE, arg_names |-> params, variadic |-> call.variadic,
                     body |-> call.body, captures |-> EmptyDict]
         IN  Ret(Log([m EXCEPT !.glob = DictSet(@, args[1], cls), !.nid = @ + 1],
                     EvDefun(cls)), cls)

main_MaybeFunctionCall_apply(call, args, sid, m, depth) ==
    LET r == main_lookup_var(m.heap[sid], m.glob, call.name, call)
        m1 == IF IsCallNode(call.name) THEN main_execute(call.name, sid, m, depth + 1)
              ELSE IF r.err.kind # "ok"
                   THEN Fail(Log(m, EvLookup(NameOf(call.name), m.heap[sid], m.glob, r)), r.err)
              ELSE IF IsName(call.name)
                   THEN Ret(Log(m, EvLookup(NameOf(call.name), m.heap[sid], m.glob, r)), r.val)
              ELSE Ret(m, r.val)
        inst == Instantiate(m1.val, call.args)
    IN  IF ~Ok(m1) THEN m1
        ELSE IF ~IsClass(m1.val) THEN Fail(m1, Err("NotCallable", call.name, call))
        ELSE IF inst.err.kind # "ok" THEN Fail(m1, inst.err)
        ELSE main_apply(inst.node, args, sid, m1, depth)

\* the value of an apply that neither reads nor writes the machine
main_pure_apply(call, args) ==
    CASE call.cls.kind = "not" -> NotCall_apply(call, args)
      [] call.cls.kind = "eq" -> EqualCall_apply(call, args)
      [] call.cls.kind = "lt" -> LessThanCall_apply(call, args)
      [] call.cls.kind = "none" -> Val(None)
      [] call.cls.kind = "true" -> Val(B(TRUE))
      [] call.cls.kind = "plus" -> PlusCall_apply(call, args)
      [] call.cls.kind = "minus" -> MinusCall_apply(call, args)
      [] call.cls.kind = "flatten" -> main_FlattenCall_apply(call, args)
      \* cond, if, let: args[-1], and for cond and if None on IndexError
      [] call.cls.kind \in {"cond", "if"} ->
            Val(IF Len(args) = 0 THEN None ELSE args[Len(args)])
      [] call.cls.kind = "let" ->
            IF Len(args) = 0 THEN [err |-> Err("IndexError", None, call), val |-> None]
            ELSE Val(args[Len(args)])

main_apply(call, args, sid, m, depth) ==
    CASE call.cls.kind = "user" -> main_BaseUserCall_apply(call, args, sid, m, depth)
      [] call.cls.kind = "defun" -> main_DefineFunctionCall_apply(call, args, sid, m, depth)
      [] call.cls.kind = "maybe" -> main_MaybeFunctionCall_apply(call, args, sid, m, depth)
      [] call.cls.kind = "print" -> Ret([m EXCEPT !.out = Append(@, args)], None)
      [] OTHER -> LET r == main_pure_apply(call, args)
                  IN  IF r.err.kind # "ok" THEN Fail(m, r.err) ELSE Ret(m, r.val)

\* Call.execute, from its end to its start. Each stage gets what the stages
\* before it computed: before (the scope as it was on entry), sym (the resolved
\* arguments), p (what prepare returned), ch (the arguments after the calls among
\* them were executed).

\* a let that got as far as prepare is over here, returned or raised
main_execute_over(call, sid, before, p, done) ==
    IF call.cls.kind = "let"
    THEN Log(done, EvLet(before, done.heap[sid], p.m.heap[p.sid], done.err,
                         IF Ok(done) THEN done.val ELSE None))
    ELSE done

\* return self.apply(scope, global_scope, *resolved_args)
main_execute_applied(call, sid, before, p, ch, applied) ==
    main_execute_over(call, sid, before, p,
                      IF ~Ok(applied) THEN applied
                      ELSE Log(applied, EvApply(call, ch.args, applied.val)))

\* if not self.validate_on_prepare: self.validate_args(resolved_args)
main_execute_validated(call, sid, before, p, ch, e2, depth) ==
    IF e2.kind # "ok" THEN main_execute_over(call, sid, before, p, Fail(ch.m, e2))
    ELSE main_execute_applied(call, sid, before, p, ch,
                              main_apply(p.call, ch.args, p.sid, ch.m, depth))

\* "Then resolve the calls using the updated scope"
main_execute_children(call, sid, before, p, ch, depth) ==
    IF ~Ok(ch.m) THEN main_execute_over(call, sid, before, p, ch.m)
    ELSE main_execute_validated(call, sid, before, p, ch,
                                IF ~call.cls.vor THEN main_validate_args(call, ch.args)
                                ELSE NoErr,
                                depth)

\* sym_args, scope = self.prepare(scope, global_scope, *sym_args)
main_execute_prepared(call, sid, before, p, depth) ==
    IF ~Ok(p.m) THEN main_execute_over(call, sid, before, p, p.m)
    ELSE main_execute_children(call, sid, before, p,
                               main_execute_args(p.args, 1, <<>>, p.sid, p.m, depth),
                               depth)

\* if self.validate_on_prepare: self.validate_args(sym_args)
main_execute_resolved(call, sid, before, sym, depth) ==
    IF ~Ok(sym.m) THEN sym.m
    ELSE IF call.cls.vor /\ main_validate_args(call, sym.args).kind # "ok"
         THEN Fail(sym.m, main_validate_args(call, sym.args))
    ELSE main_execute_prepared(call, sid, before,
                               main_prepare(call, sym.args, sid, sym.m, depth), depth)

\* Call.execute
main_execute(call, sid, m0, depth) ==
    IF ~Ok(m0) THEN m0
    ELSE IF depth > MaxDepth THEN Fail(m0, Err("RecursionError", None, call))
    ELSE main_execute_resolved(call, sid, m0.heap[sid],
                               main_resolve_args(call, 1, <<>>, sid,
                                                 Log(m0, EvExecute(call))),
                               depth)

(***************************************************************************)
(* src/calls.py: the forms' can_prepare, sort_args, prepare and apply.     *)
(* arg_idx counts from 0 as in the code; args[arg_idx + 1] is that element.*)
(* A prepare returns [m, args, sid, call]: the machine, the new argument   *)
(* list, the scope to go on with, the node (defun changes self.body).      *)
(***************************************************************************)
Call_can_prepare(call, args, arg_idx) == TRUE
\* arg_idx == ((len(args)/2)-1), a float comparison
CondCall_can_prepare(call, args, arg_idx) == 2 * (arg_idx + 1) = Len(args)
IfCall_can_prepare(call, args, arg_idx) == arg_idx = 0
LetCall_can_prepare(call, args, arg_idx) == arg_idx = Len(args) - 2
BaseUserCall_can_prepare(call, args, arg_idx) == arg_idx >= Len(args) - 1
MaybeFunctionCall_can_prepare(call, args, arg_idx) == arg_idx = Len(call.args) - 1

can_prepare(call, args, arg_idx) ==
    CASE call.cls.kind = "cond" -> CondCall_can_prepare(call, args, arg_idx)
      [] call.cls.kind = "if" -> IfCall_can_prepare(call, args, arg_idx)
      [] call.cls.kind = "let" -> LetCall_can_prepare(call, args, arg_idx)
      [] call.cls.kind = "user" -> BaseUserCall_can_prepare(call, args, arg_idx)
      [] call.cls.kind = "maybe" -> MaybeFunctionCall_can_prepare(call, args, arg_idx)
      [] OTHER -> Call_can_prepare(call, args, arg_idx)

\* range(start, len(args), 2) of a zero-based list: the elements at odd (start = 0)
\* or even (start = 1) one-based positions
EveryOther(args, start) ==
    [i \in 1..((Len(args) + 1 - start) \div 2) |-> args[2 * i - 1 + start]]

CondCall_sort_args(args) == EveryOther(args, 0) \o EveryOther(args, 1)

sort_args(call, args) ==
    IF call.cls.kind = "cond" THEN CondCall_sort_args(args) ELSE args

\* the first i with args[i] truthy among the first mid, 0 if none
FirstTruthy(args, mid) ==
    IF \E i \in 1..mid : truthy(args[i])
    THEN CHOOSE i \in 1..mid : truthy(args[i]) /\ \A j \in 1..(i - 1) : ~truthy(args[j])
    ELSE 0

CondCall_prepare(call, args, sid, m) ==
    LET mid == Len(args) \div 2
        i == FirstTruthy(args, mid)
    IN  [m |-> m, sid |-> sid, call |-> call,
         args |-> IF i > 0 THEN Append(SubSeq(args, 1, mid), args[mid + i])
                  ELSE SubSeq(args, 1, mid)]

\* IfCall.prepare choosing the other branch
IfCall_prepare_swapped(call, args, sid, m) ==
    [m |-> m, sid |-> sid, call |-> call,
     args |-> IF ~truthy(args[1]) THEN <<args[1], args[2]>>
              ELSE IF Len(args) = 3 THEN <<args[1], args[3]>>
              ELSE <<args[1]>>]

\* IfCall.prepare dropping no branch
IfCall_prepare_keep_all(call, args, sid, m) ==
    [m |-> m, sid |-> sid, call |-> call, args |-> args]

IfCall_prepare(call, args, sid, m) ==
    [m |-> m, sid |-> sid, call |-> call,
     args |-> IF truthy(args[1]) THEN <<args[1], args[2]>>
              ELSE IF Len(args) = 3 THEN <<args[1], args[3]>>
              ELSE <<args[1]>>]

\* for k, v in pairs(args[:-1]): scope[k] = v. Returns [err, scope].
RECURSIVE LetCall_bind(_, _, _)
LetCall_bind(kv, i, scope) ==
    IF i > Len(kv) THEN [err |-> NoErr, scope |-> scope]
    \* pairs(it): it[i + 1] past the end
    ELSE IF i = Len(kv) THEN [err |-> Err("IndexError", None, None), scope |-> scope]
    ELSE LET k == IF kv[i].t = "strvar" THEN S(kv[i].v) ELSE kv[i]
         IN  LetCall_bind(kv, i + 2, DictSet(scope, k, kv[i + 1]))

\* LetCall.prepare binding into the scope it was given, without the copy
LetCall_prepare_in_place(call, args, sid, m) ==
    LET b == LetCall_bind(SubSeq(args, 1, Len(args) - 1), 1, m.heap[sid])
    IN  [m |-> IF b.err.kind # "ok" THEN Fail(m, b.err)
               ELSE [m EXCEPT !.heap[sid] = b.scope],
         args |-> args, sid |-> sid, call |-> call]

\* LetCall.prepare writing what it binds into global_scope as well
LetCall_prepare_into_global(call, args, sid, m) ==
    LET m1 == NewScope(m, m.heap[sid])
        sid2 == Len(m1.heap)
        b == LetCall_bind(SubSeq(args, 1, Len(args) - 1), 1, m.heap[sid])
    IN  [m |-> IF b.err.kind # "ok" THEN Fail(m1, b.err)
               ELSE [m1 EXCEPT !.heap[sid2] = b.scope,
                               !.glob = DictUpdate(@, b.scope)],
         args |-> args, sid |-> sid2, call |-> call]

LetCall_prepare(call, args, sid, m) ==
    LET m1 == NewScope(m, m.heap[sid])
        sid2 == Len(m1.heap)
        b == LetCall_bind(SubSeq(args, 1, Len(args) - 1), 1, m.heap[sid])
    IN  [m |-> IF b.err.kind # "ok" THEN Fail(m1, b.err)
               ELSE [m1 EXCEPT !.heap[sid2] = b.scope],
         args |-> args, sid |-> sid2, call |-> call]

\* BaseUserCall.validate_args: super().validate_args(final_args[:-1])
BaseUserCall_validate_args(call, final_args) ==
    Call_validate_args(call, SubSeq(final_args, 1, Len(final_args) - 1))

\* a binding loop that gives `*` the arguments after the one at its own position
RECURSIVE bind_params_star_late(_, _, _, _, _)
bind_params_star_late(cls, call, args, i, scope) ==
    IF i > Len(cls.arg_names) THEN [err |-> NoErr, scope |-> scope]
    ELSE IF cls.arg_names[i] = Star
         THEN [err |-> NoErr,
               scope |-> DictSet(scope, Star, Tup(SubSeq(args, i + 1, Len(args))))]
    ELSE IF i > Len(args)
         THEN [err |-> ErrN("Arity", cls.name, call, Len(args)), scope |-> scope]
    ELSE bind_params_star_late(cls, call, args, i + 1,
                               DictSet(scope, cls.arg_names[i], args[i]))

\* the loop of BaseUserCall.prepare over arg_names: [err, scope]
RECURSIVE bind_params(_, _, _, _, _)
bind_params(cls, call, args, i, scope) ==
    IF i > Len(cls.arg_names) THEN [err |-> NoErr, scope |-> scope]
    ELSE IF cls.arg_names[i] = Star
         THEN [err |-> NoErr,
               scope |-> DictSet(scope, Star, Tup(SubSeq(args, i, Len(args))))]
    ELSE IF i > Len(args)
         \* args.append(None); self.validate_args(args)
         THEN [err |-> BaseUserCall_validate_args(call, Append(args, None)), scope |-> scope]
    ELSE bind_params(cls, call, args, i + 1, DictSet(scope, cls.arg_names[i], args[i]))

\* a body scope that reads the captured names from the caller's scope at the call
BaseUserCall_scope_late(cls, caller_scope) ==
    [k \in DOMAIN cls.captures \cap DOMAIN caller_scope |-> caller_scope[k]]

\* the scope a user function's body starts from, before the parameters are bound:
\* dict(), then update(self.captures)
BaseUserCall_scope(cls, caller_scope) == DictUpdate(EmptyDict, cls.captures)

\* self.resolved_symbols, self.prepared of a node
Flags(node) ==
    IF IsCallNode(node)
    THEN [resolved_symbols |-> node.resolved_symbols, prepared |-> node.prepared]
    ELSE [resolved_symbols |-> FALSE, prepared |-> FALSE]

\* self.body: the object the class keeps, with the flags it has now
StoredBody(cls, m) ==
    IF IsCallNode(cls.body)
    THEN [cls.body EXCEPT !.obj = cls.id,
                          !.resolved_symbols = m.stored[cls.id].resolved_symbols,
                          !.prepared = m.stored[cls.id].prepared]
    ELSE cls.body

\* deepcopy(node): the same arguments and flags in a new object
deepcopy(node) == IF IsCallNode(node) THEN [node EXCEPT !.obj = 0] ELSE node

\* BaseUserCall.prepare appending self.body itself
BaseUserCall_prepare_body_shared(call, args, sid, m) ==
    LET cls == call.cls
        base == DictUpdate(EmptyDict, cls.captures)
        s0 == IF cls.variadic THEN DictSet(base, Star, Tup(<<>>)) ELSE base
        b == bind_params(cls, call, args, 1, s0)
        m1 == NewScope(m, b.scope)
    IN  IF b.err.kind # "ok"
        THEN [m |-> Fail(m, b.err), args |-> args, sid |-> sid, call |-> call]
        ELSE [m |-> Log(m1, EvCall(cls, m.heap[sid], b.scope)),
              args |-> Append(args, StoredBody(cls, m)), sid |-> Len(m1.heap),
              call |-> call]

BaseUserCall_prepare(call, args, sid, m) ==
    LET cls == call.cls
        base == BaseUserCall_scope(cls, m.heap[sid])
        s0 == IF cls.variadic THEN DictSet(base, Star, Tup(<<>>)) ELSE base
        b == bind_params(cls, call, args, 1, s0)
        m1 == NewScope(m, b.scope)
    IN  IF b.err.kind # "ok"
        THEN [m |-> Fail(m, b.err), args |-> args, sid |-> sid, call |-> call]
        ELSE [m |-> Log(m1, EvCall(cls, m.heap[sid], b.scope)),
              args |-> Append(args, deepcopy(StoredBody(cls, m))), sid |-> Len(m1.heap),
              call |-> call]

\* self.body = args.pop()
DefineFunctionCall_prepare(call, args, sid, m) ==
    IF Len(args) = 0
    THEN [m |-> Fail(m, Err("IndexError", None, call)), args |-> args, sid |-> sid,
          call |-> call]
    ELSE [m |-> m, args |-> SubSeq(args, 1, Len(args) - 1), sid |-> sid,
          call |-> [call EXCEPT !.body = args[Len(args)]]]

MaybeFunctionCall_prepare(call, args, sid, m) ==
    LET r == lookup_var(m.heap[sid], m.glob, args[1], call)
        m1 == IF IsClass(args[1]) THEN m
              ELSE IF IsName(args[1])
                   THEN Log(m, EvLookup(NameOf(args[1]), m.heap[sid], m.glob, r))
              ELSE m
        looked == IF r.err.kind = "ok" /\ r.val.t = "strvar" THEN S(r.val.v) ELSE r.val
        real_fn == IF IsClass(args[1]) THEN args[1] ELSE looked
        rest == Tail(args)
        inst == Instantiate(real_fn, rest)
        fail(e) == [m |-> Fail(m1, e), args |-> args, sid |-> sid, call |-> call]
    IN  IF ~IsClass(args[1]) /\ r.err.kind # "ok" THEN fail(r.err)
        ELSE IF ~IsClass(real_fn) THEN fail(Err("NotCallable", call.name, call))
        ELSE IF inst.err.kind # "ok" THEN fail(inst.err)
        ELSE [m |-> m1, args |-> Append(rest, inst.node), sid |-> sid, call |-> call]

\* Call.prepare
Call_prepare(call, args, sid, m) == [m |-> m, args |-> args, sid |-> sid, call |-> call]

prepare(call, args, sid, m) ==
    CASE call.cls.kind = "cond" -> CondCall_prepare(call, args, sid, m)
      [] call.cls.kind = "if" -> IfCall_prepare(call, args, sid, m)
      [] call.cls.kind = "let" -> LetCall_prepare(call, args, sid, m)
      [] call.cls.kind = "user" -> BaseUserCall_prepare(call, args, sid, m)
      [] call.cls.kind \in {"defun", "lambda"} -> DefineFunctionCall_prepare(call, args, sid, m)
      [] call.cls.kind = "maybe" -> MaybeFunctionCall_prepare(call, args, sid, m)
      [] OTHER -> Call_prepare(call, args, sid, m)

validate_args(call, final_args) ==
    CASE call.cls.kind = "let" -> LetCall_validate_args(call, final_args)
      [] call.cls.kind = "cond" -> CondCall_validate_args(call, final_args)
      [] call.cls.kind = "user" -> BaseUserCall_validate_args(call, final_args)
      [] OTHER -> Call_validate_args(call, final_args)

\* DefineFunctionCall.apply
DefineFunctionCall_apply(call, args, captures, m) ==
    IF Len(args) = 0 THEN Fail(m, Err("IndexError", None, call))
    ELSE LET name == IF args[1].t = "strvar" THEN S(args[1].v) ELSE args[1]
             params == Tail(args)
             cls == [t |-> "class", kind |-> "user", id |-> m.nid, name |-> name,
                     exact |-> ~call.variadic,
                     num_args |-> IF call.variadic THEN Len(params) - 1 ELSE Len(params),
                     vor |-> FALSE, arg_names |-> params, variadic |-> call.variadic,
                     body |-> call.body, captures |-> captures]
         IN  Ret(Log([m EXCEPT !.glob = DictSet(@, name, cls), !.nid = @ + 1,
                               !.stored = DictSet(@, m.nid, Flags(call.body))],
                     EvDefun(cls)), cls)

\* the value each capture name has now: [m, captures]
RECURSIVE LambdaFunctionCall_capture(_, _, _, _, _, _)
LambdaFunctionCall_capture(call, names, i, captures, sid, m) ==
    IF i > Len(names) THEN [m |-> m, captures |-> captures]
    ELSE LET r == lookup_var(m.heap[sid], m.glob, names[i], call)
             m1 == IF IsName(names[i])
                   THEN Log(m, EvLookup(NameOf(names[i]), m.heap[sid], m.glob, r))
                   ELSE m
         IN  IF r.err.kind # "ok" THEN [m |-> Fail(m1, r.err), captures |-> captures]
             ELSE IF r.expand
                  THEN [m |-> Fail(m1, Err("AssertionError", None, call)),
                        captures |-> captures]
             ELSE LambdaFunctionCall_capture(call, names, i + 1,
                                             DictSet(captures, names[i], r.val), sid, m1)

LambdaFunctionCall_apply(call, args, sid, m) ==
    IF Len(args) = 0 THEN Fail(m, Err("IndexError", None, call))
    ELSE IF ~Iterable(args[1]) THEN Fail(m, Err("TypeError", None, call))
    ELSE LET c == LambdaFunctionCall_capture(call, Elements(args[1]), 1, EmptyDict, sid, m)
         IN  IF ~Ok(c.m) THEN c.m
             ELSE DefineFunctionCall_apply(call, <<S(<<>>)>> \o Tail(args), c.captures, c.m)

\* print(*map(lambda v: v.value if isinstance(v, StringVar) else v, args))
PrintCall_line(args) ==
    [i \in 1..Len(args) |-> IF args[i].t = "strvar" THEN S(args[i].v) ELSE args[i]]

\* the value of an apply that neither reads nor writes the machine
pure_apply(call, args) ==
    CASE call.cls.kind = "not" -> NotCall_apply(call, args)
      [] call.cls.kind = "eq" -> EqualCall_apply(call, args)
      [] call.cls.kind = "lt" -> LessThanCall_apply(call, args)
      [] call.cls.kind = "none" -> Val(None)
      [] call.cls.kind = "true" -> Val(B(TRUE))
      [] call.cls.kind = "plus" -> PlusCall_apply(call, args)
      [] call.cls.kind = "minus" -> MinusCall_apply(call, args)
      [] call.cls.kind = "flatten" -> FlattenCall_apply(call, args)
      \* if len(args) > (len(self.args)/2): return args[-1]
      [] call.cls.kind = "cond" ->
            Val(IF 2 * Len(args) > Len(call.args) THEN args[Len(args)] ELSE None)
      [] call.cls.kind = "if" -> Val(IF Len(args) > 1 THEN args[Len(args)] ELSE None)
      \* let, a user function, a maybe-call: args[-1]
      [] call.cls.kind \in {"let", "user", "maybe"} ->
            IF Len(args) = 0 THEN [err |-> Err("IndexError", None, call), val |-> None]
            ELSE Val(args[Len(args)])

apply(call, args, sid, m) ==
    CASE call.cls.kind = "defun" -> DefineFunctionCall_apply(call, args, EmptyDict, m)
      [] call.cls.kind = "lambda" -> LambdaFunctionCall_apply(call, args, sid, m)
      [] call.cls.kind = "print" -> Ret([m EXCEPT !.out = Append(@, PrintCall_line(args))], None)
      [] OTHER -> LET r == pure_apply(call, args)
                  IN  IF r.err.kind # "ok" THEN Fail(m, r.err) ELSE Ret(m, r.val)

(***************************************************************************)
(* execute(call, scope, global_scope), the evaluator that drives the forms *)
(* of src/calls.py with an explicit stack of frames. A frame:              *)
(*   call      the node                                                    *)
(*   args      its argument list as it stands (resolved, prepared, with    *)
(*             the results of the children put in place)                   *)
(*   idx       arg_idx, from 0                                             *)
(*   sid       its scope                                                   *)
(*   pc        "resolve" (symbols not resolved yet), "eager" (resolved,    *)
(*             the can_prepare(args, -1) check is next), "walk"            *)
(*   prepared  whether prepare has run                                     *)
(*   esid, before   the scope it was entered with, and what that held      *)
(***************************************************************************)
\* the flags of the node object: a class's own body is one object for every
\* evaluation of it
NodeFlags(call, m) == IF call.obj = 0 THEN Flags(call) ELSE m.stored[call.obj]
\* call.resolved_symbols = True, call.prepared = True
Mark(call, flags, m) ==
    IF call.obj = 0 THEN m ELSE [m EXCEPT !.stored[call.obj] = flags]

Frame(call, sid, m) ==
    [call |-> call,
     args |-> IF NodeFlags(call, m).resolved_symbols THEN call.args ELSE <<>>,
     idx |-> 0, sid |-> sid,
     pc |-> IF NodeFlags(call, m).resolved_symbols THEN "eager" ELSE "resolve",
     prepared |-> NodeFlags(call, m).prepared, esid |-> sid, before |-> m.heap[sid]]

\* resolve_args putting the elements of an expanded argument in front
RECURSIVE resolve_args_spliced_first(_, _, _, _, _)
resolve_args_spliced_first(call, i, acc, sid, m) ==
    IF i > Len(call.args) THEN [m |-> m, args |-> acc]
    ELSE LET arg == call.args[i]
             r == lookup_var(m.heap[sid], m.glob, arg, call)
             m1 == IF IsName(arg)
                   THEN Log(m, EvLookup(NameOf(arg), m.heap[sid], m.glob, r))
                   ELSE m
         IN  IF r.err.kind # "ok" THEN [m |-> Fail(m1, r.err), args |-> acc]
             ELSE IF r.expand THEN
                 IF Iterable(r.val)
                 THEN resolve_args_spliced_first(call, i + 1, Elements(r.val) \o acc, sid, m1)
                 ELSE [m |-> Fail(m1, Err("TypeError", None, call)), args |-> acc]
             ELSE resolve_args_spliced_first(call, i + 1, Append(acc, r.val), sid, m1)

\* resolve each raw argument, splicing an expanded one in place: [m, args]
RECURSIVE resolve_args(_, _, _, _, _)
resolve_args(call, i, acc, sid, m) ==
    IF i > Len(call.args) THEN [m |-> m, args |-> acc]
    ELSE LET arg == call.args[i]
             r == lookup_var(m.heap[sid], m.glob, arg, call)
             m1 == IF IsName(arg)
                   THEN Log(m, EvLookup(NameOf(arg), m.heap[sid], m.glob, r))
                   ELSE m
         IN  IF r.err.kind # "ok" THEN [m |-> Fail(m1, r.err), args |-> acc]
             ELSE IF r.expand THEN
                 IF Iterable(r.val)
                 THEN resolve_args(call, i + 1, acc \o Elements(r.val), sid, m1)
                 ELSE [m |-> Fail(m1, Err("TypeError", None, call)), args |-> acc]
             ELSE resolve_args(call, i + 1, Append(acc, r.val), sid, m1)

Top == stack[Len(stack)]
Walking == phase = "exec" /\ Top.pc = "walk"
AtArg == Walking /\ Top.idx < Len(Top.args)
CurArg == Top.args[Top.idx + 1]

\* an exception leaves every frame: each let that was entered is over
RECURSIVE Unwind(_, _, _)
Unwind(stk, i, m) ==
    IF i = 0 THEN m
    ELSE LET f == stk[i]
         IN  Unwind(stk, i - 1,
                    IF f.call.cls.kind = "let" /\ f.pc # "resolve"
                    THEN Log(m, EvLet(f.before, m.heap[f.esid], m.heap[f.sid], m.err, None))
                    ELSE m)

\* the run ends with the exception in m
Raise(m) ==
    /\ mach' = Unwind(stack, Len(stack), m)
    /\ phase' = "done"
    /\ UNCHANGED <<impl, prog, earlier, idx, stack, result>>

\* go on with the top frame changed to f and the machine to m
Continue(f, m) ==
    /\ stack' = [stack EXCEPT ![Len(stack)] = f]
    /\ mach' = m
    /\ UNCHANGED <<impl, prog, earlier, idx, result, phase>>

\* step 1: resolve the symbols, sort_args, validate if validate_on_resolve
Resolve ==
    /\ phase = "exec" /\ Top.pc = "resolve"
    /\ LET r == resolve_args(Top.call, 1, <<>>, Top.sid, mach)
           sorted == sort_args(Top.call, r.args)
           e == IF Top.call.cls.vor THEN validate_args(Top.call, sorted) ELSE NoErr
       IN  IF ~Ok(r.m) THEN Raise(r.m)
           ELSE IF e.kind # "ok" THEN Raise(Fail(r.m, e))
           ELSE Continue([Top EXCEPT !.args = sorted, !.pc = "eager"],
                         Mark(Top.call, [NodeFlags(Top.call, r.m) EXCEPT
                                            !.resolved_symbols = TRUE], r.m))

\* prepare of the top frame with its arguments as they stand
DoPrepare ==
    LET p == prepare(Top.call, Top.args, Top.sid, mach)
    IN  IF ~Ok(p.m) THEN Raise(p.m)
        ELSE Continue([Top EXCEPT !.call = p.call, !.args = p.args, !.sid = p.sid,
                                  !.prepared = TRUE, !.pc = "walk"],
                      Mark(Top.call, [NodeFlags(Top.call, p.m) EXCEPT !.prepared = TRUE],
                           p.m))

\* step 2: a form that can prepare before any argument is looked at does so
EagerPrepare ==
    /\ phase = "exec" /\ Top.pc = "eager"
    /\ IF can_prepare(Top.call, Top.args, -1) /\ ~Top.prepared
       THEN DoPrepare
       ELSE Continue([Top EXCEPT !.pc = "walk"], mach)

\* step 3, the argument is a call: evaluate it, in the scope of this frame
Descend ==
    /\ AtArg /\ IsCallNode(CurArg)
    /\ IF Len(stack) >= MaxDepth * 3
       THEN Raise(Fail(mach, Err("RecursionError", None, CurArg)))
       ELSE /\ stack' = Append(stack, Frame(CurArg, Top.sid, mach))
            /\ mach' = Log(mach, EvPivot(CurArg))
            /\ UNCHANGED <<impl, prog, earlier, idx, result, phase>>

\* step 3, the argument is a value and the form can prepare here
Prepare ==
    /\ AtArg /\ ~IsCallNode(CurArg)
    /\ can_prepare(Top.call, Top.args, Top.idx) /\ ~Top.prepared
    /\ DoPrepare

\* step 3, otherwise: next argument
Advance ==
    /\ AtArg /\ ~IsCallNode(CurArg)
    /\ ~(can_prepare(Top.call, Top.args, Top.idx) /\ ~Top.prepared)
    /\ Continue([Top EXCEPT !.idx = @ + 1], mach)

\* step 4: validate unless done on resolve, apply, hand the result to the parent
Apply ==
    /\ Walking /\ Top.idx = Len(Top.args)
    /\ LET e == IF ~Top.call.cls.vor THEN validate_args(Top.call, Top.args) ELSE NoErr
           a == apply(Top.call, Top.args, Top.sid, mach)
           m1 == Log(a, EvApply(Top.call, Top.args, a.val))
           m2 == IF Top.call.cls.kind = "let"
                 THEN Log(m1, EvLet(Top.before, m1.heap[Top.esid], m1.heap[Top.sid],
                                    NoErr, m1.val))
                 ELSE m1
           below == SubSeq(stack, 1, Len(stack) - 1)
           parent == below[Len(below)]
       IN  IF e.kind # "ok" THEN Raise(Fail(mach, e))
           ELSE IF ~Ok(a) THEN Raise(a)
           ELSE IF Len(stack) = 1
                THEN /\ result' = m2.val
                     /\ idx' = idx + 1
                     /\ phase' = "idle"
                     /\ stack' = <<>>
                     /\ mach' = m2
                     /\ UNCHANGED <<impl, prog, earlier>>
           ELSE /\ stack' = [below EXCEPT ![Len(below)] =
                                [parent EXCEPT !.args[parent.idx + 1] = m2.val]]
                /\ mach' = m2
                /\ UNCHANGED <<impl, prog, earlier, idx, result, phase>>

(***************************************************************************)
(* run_source_inner (src/main.py): parse the next top-level call with the  *)
(* global scope as it is now, execute it with a new empty local scope.     *)
(***************************************************************************)
\* a driver that takes the blocks from the last one to the first
next_block_backwards(blocks, i) == blocks[Len(blocks) - i]

\* process_call(source, idx, global_scope): the call that starts at idx
next_block(blocks, i) == blocks[i + 1]

\* a driver that hands a block the local scope made last
block_scope_kept(m) == IF Len(m.heap) = 0 THEN EmptyDict ELSE m.heap[Len(m.heap)]

\* body.execute({}, global_scope): the local scope a block starts with
block_scope(m) == EmptyDict

\* result = body.execute({}, global_scope) has returned, or raised, with machine m
main_block_over(m) ==
    IF ~Ok(m)
    THEN /\ mach' = m
         /\ phase' = "done"
         /\ UNCHANGED <<idx, result>>
    ELSE /\ mach' = m
         /\ result' = m.val
         /\ idx' = idx + 1
         /\ UNCHANGED phase

\* the block was parsed: execute it with a new local scope
main_block_parsed(parsed, m1) ==
    IF parsed.err.kind # "ok"
    THEN /\ mach' = Fail(mach, parsed.err)
         /\ phase' = "done"
         /\ UNCHANGED <<idx, result>>
    ELSE main_block_over(main_execute(parsed.node, Len(m1.heap),
                                      Log(m1, EvBlock(idx, block_scope(mach), mach.glob)),
                                      1))

\* the table of built-ins a run starts from
StartGlobal == IF impl = "main" THEN main_builtin_calls ELSE builtin_calls

\* whether this run parses every block before it executes the first, as a runner
\* may: the programs of the family "parsefirst", when they are run again
parse_first == prog.fam = "parsefirst" /\ Len(earlier) > 0

\* the exception of the first block from i on that does not parse, NoErr if all do
RECURSIVE parse_all(_, _, _, _)
parse_all(blocks, i, global_scope, calls) ==
    IF i > Len(blocks) THEN NoErr
    ELSE LET parsed == process_call(blocks[i], global_scope, calls)
         IN  IF parsed.err.kind # "ok" THEN parsed.err
             ELSE parse_all(blocks, i + 1, global_scope, calls)

\* parse_block that, parsing first, keeps the node of the last block only
parse_block_last_kept(calls) ==
    IF parse_first
    THEN IF parse_all(prog.blocks, idx + 1, StartGlobal, calls).kind # "ok"
         THEN [err |-> parse_all(prog.blocks, idx + 1, StartGlobal, calls), node |-> None]
         ELSE process_call(prog.blocks[Len(prog.blocks)], StartGlobal, calls)
    ELSE process_call(next_block(prog.blocks, idx), mach.glob, calls)

\* the next block as a node: parsed now, with the global scope as the blocks
\* before it left it; or parsed with all the others before anything ran
parse_block(calls) ==
    IF parse_first
    THEN IF parse_all(prog.blocks, idx + 1, StartGlobal, calls).kind # "ok"
         THEN [err |-> parse_all(prog.blocks, idx + 1, StartGlobal, calls), node |-> None]
         ELSE process_call(next_block(prog.blocks, idx), StartGlobal, calls)
    ELSE process_call(next_block(prog.blocks, idx), mach.glob, calls)

\* the loop body with the forms and Call.execute of src/main.py
main_run_block ==
    /\ impl = "main" /\ phase = "idle" /\ idx < Len(prog.blocks)
    /\ main_block_parsed(parse_block(FALSE),
                         NewScope(mach, block_scope(mach)))
    /\ UNCHANGED <<impl, prog, earlier, stack>>

\* the loop body in front of execute and the forms of src/calls.py
run_block ==
    /\ impl = "calls" /\ phase = "idle" /\ idx < Len(prog.blocks)
    /\ LET parsed == parse_block(TRUE)
           m1 == Log(NewScope(mach, block_scope(mach)),
                     EvBlock(idx, block_scope(mach), mach.glob))
       IN  IF parsed.err.kind # "ok"
           THEN /\ mach' = Fail(mach, parsed.err)
                /\ phase' = "done"
                /\ UNCHANGED stack
           ELSE /\ mach' = Log(m1, EvExecute(parsed.node))
                /\ stack' = <<Frame(parsed.node, Len(m1.heap), m1)>>
                /\ phase' = "exec"
    /\ UNCHANGED <<impl, prog, earlier, idx, result>>

\* "program's return value is the return of the last block"
Return ==
    /\ phase = "idle" /\ idx = Len(prog.blocks)
    /\ phase' = "done"
    /\ UNCHANGED <<impl, prog, earlier, idx, mach, stack, result>>

(***************************************************************************)
(* Source programs, as the parts the tokenizer finds. A program is         *)
(* [fam, p, blocks]: its family, the parameters that made it, and its      *)
(* top-level calls.                                                        *)
(***************************************************************************)
Sym(cs) == S(cs)
Quote(cs) == S(<<"'">> \o cs)
Splice(cs) == S(<<"*">> \o cs)
Program(fam, p, blocks) == [fam |-> fam, p |-> p, blocks |-> blocks]

plus == Sym(<<"+">>)
let == Sym(<<"l", "e", "t">>)
defun == Sym(<<"d", "e", "f", "u", "n">>)
lambda == Sym(<<"l", "a", "m", "b", "d", "a">>)
if == Sym(<<"i", "f">>)
cond == Sym(<<"c", "o", "n", "d">>)
print == Sym(<<"p", "r", "i", "n", "t">>)
list == <<"l", "i", "s", "t">>
foo == <<"f", "o", "o">>
bar == <<"b", "a", "r">>
zz == <<"z", "z">>
Lit(d) == Sym(<<d>>)
Var(c) == Sym(<<c>>)
Q(c) == Quote(<<c>>)
\* (+ a), (+ a b)
Plus1(a) == Tree(<<plus, a>>)
Plus2(a, b) == Tree(<<plus, a, b>>)
\* (defun 'list '* (+ *))
DefList == Tree(<<defun, Quote(list), StarParam, Plus1(Star)>>)

\* an argument of kind k about the name n: a literal, the bare name, calls that
\* read it, a call that fails
Shape(k, n) ==
    CASE k = "lit" -> Lit("3")
      [] k = "name" -> Var(n)
      [] k = "call" -> Plus1(Var(n))
      [] k = "sum" -> Plus2(Var(n), Var("y"))
      [] k = "bad" -> Plus1(Sym(zz))
Shapes ==
    { sh \in [k : {"lit", "name", "call", "sum", "bad"}, n : {"x", "w", "y"}] :
        /\ sh.k \in {"lit", "bad"} => sh.n = "x"
        /\ sh.k = "sum" => sh.n # "y" }

\* (let 'x 1 (+ (let 'N 2 'y V BODY) (+ R))): an inner let that shadows x or binds
\* a new name, a value and a body that are names or calls, a reference afterwards
LetPrograms ==
    { Program("let", [n |-> n, v |-> v, body |-> body, r |-> r],
              <<Tree(<<let, Q("x"), Lit("1"),
                       Plus2(Tree(<<let, Q(n), Lit("2"), Q("y"), Shape(v.k, v.n),
                                    Shape(body.k, body.n)>>),
                             Plus1(Var(r)))>>)>>) :
        n \in {"x", "w"}, v \in {sh \in Shapes : sh.n # "y"}, body \in Shapes,
        r \in {"x", "w", "y"} }

\* A function whose body (+ a REF) reads its parameter and one more name, called
\* with 10 inside (let 'x 1 ...); the function is a defun of an earlier block, a
\* defun known by a local name, or a lambda that captures c:
\*   (let 'x 99 (defun 'foo PARAMS (+ a REF))) (let 'x 1 (foo 10))
\*   (let 'g (defun 'foo PARAMS (+ a REF)) (let 'x 1 (g 10)))
\*   (let 'c 5 (let 'g (lambda 'c PARAMS (+ a REF)) (let 'x 1 (g 10))))
Params(variadic) == IF variadic THEN <<Q("a"), StarParam>> ELSE <<Q("a")>>
CallBlocks(kind, variadic, ref) ==
    LET body == Plus2(Var("a"), Var(ref))
        def == Tree(<<defun, Quote(foo)>> \o Params(variadic) \o <<body>>)
        lam == Tree(<<lambda, Q("c")>> \o Params(variadic) \o <<body>>)
        use(f) == Tree(<<let, Q("x"), Lit("1"), Tree(<<f, Lit("9")>>)>>)
    IN  CASE kind = "defun" -> <<Tree(<<let, Q("x"), Lit("7"), def>>), use(Sym(foo))>>
          [] kind = "name" -> <<Tree(<<let, Q("g"), def, use(Var("g"))>>)>>
          [] kind = "lambda" ->
                <<Tree(<<let, Q("c"), Lit("5"), Tree(<<let, Q("g"), lam, use(Var("g"))>>)>>)>>
CallPrograms ==
    { Program("call", [kind |-> kind, variadic |-> variadic, ref |-> ref],
              CallBlocks(kind, variadic, ref)) :
        kind \in {"defun", "name", "lambda"}, variadic \in BOOLEAN,
        ref \in {"x", "a", "c"} }

\* A condition: the literal 0 or 1, or the call (+ 0) or (+ 1)
Conds == [call : BOOLEAN, v : {"0", "1"}]
CondExpr(c) == IF c.call THEN Plus1(Lit(c.v)) ELSE Lit(c.v)
\* (defun 'NAME 'a (+ a))
Def1(name) == Tree(<<defun, Quote(name), Q("a"), Plus1(Var("a"))>>)

\* Definitions in the branches of an if or a cond, then a call to each name:
\*   (if C1 (defun 'foo 'a (+ a)) (defun 'bar 'a (+ a))) (foo 1) (bar 2)
\*   (cond C1 (defun 'foo 'a (+ a)) C2 (defun 'bar 'a (+ a))) (foo 1) (bar 2)
\* with the two calls in either order
BranchBlocks(form, c1, c2, first) ==
    LET head == IF form = "if"
                THEN Tree(<<if, CondExpr(c1), Def1(foo), Def1(bar)>>)
                ELSE Tree(<<cond, CondExpr(c1), Def1(foo), CondExpr(c2), Def1(bar)>>)
        cfoo == Tree(<<Sym(foo), Lit("1")>>)
        cbar == Tree(<<Sym(bar), Lit("2")>>)
    IN  IF first = "foo" THEN <<head, cfoo, cbar>> ELSE <<head, cbar, cfoo>>
BranchPrograms ==
    { Program("branch", q, BranchBlocks(q.form, q.c1, q.c2, q.first)) :
        q \in { q \in [form : {"if", "cond"}, c1 : Conds, c2 : Conds,
                       first : {"foo", "bar"}] :
                  q.form = "if" => q.c2 = [call |-> FALSE, v |-> "0"] } }

\* (defun 'foo 'a (+ a)) (let 'N 5 (+ REF)): the let binds a name that global
\* binds too (the function foo, the built-in +) or a new one; REF is one of them or
\* a name nobody binds
LookupNames == {foo, <<"+">>, <<"w">>, zz}
LookupPrograms ==
    { Program("lookup", [n |-> n, ref |-> ref],
              <<Def1(foo), Tree(<<let, Quote(n), Lit("5"), Plus1(Sym(ref))>>)>>) :
        n \in LookupNames \ {zz}, ref \in LookupNames }

\* (defun 'list '* (+ *))
\* (let 'f V1 (let 'g (lambda CAPTURES (+ f)) (let 'f V2 USE))): a lambda that
\* captures f, given as (list 'f) or as the string 'f, invoked where f is bound
\* again; USE is (g), (+ (g) (g)) or (+ (g) f)
LambdaBlocks(capt, v1, v2, use) ==
    LET g == Tree(<<Var("g")>>)
        captures == IF capt = "list" THEN Tree(<<Sym(list), Q("f")>>) ELSE Q("f")
        lam == Tree(<<lambda, captures, Plus1(Var("f"))>>)
        body == CASE use = "once" -> g
                  [] use = "twice" -> Plus2(g, g)
                  [] use = "mixed" -> Plus2(g, Var("f"))
    IN  <<DefList,
          Tree(<<let, Q("f"), Lit(v1),
                 Tree(<<let, Q("g"), lam, Tree(<<let, Q("f"), Lit(v2), body>>)>>)>>)>>
LambdaPrograms ==
    { Program("lambda", [capt |-> capt, v1 |-> v1, v2 |-> v2, use |-> use],
              LambdaBlocks(capt, v1, v2, use)) :
        capt \in {"list", "str"}, v1 \in {"1", "9"}, v2 \in {"1", "9"},
        use \in {"once", "twice", "mixed"} }

\* The three blocks of
\*   (defun 'bar 'a (+ a 1)) (defun 'foo 'a (+ (bar a) 1)) (foo 5)
\* in every order, and three prints in a row
BlockOf(tag) ==
    CASE tag = "bar" -> Tree(<<defun, Quote(bar), Q("a"), Plus2(Var("a"), Lit("1"))>>)
      [] tag = "foo" -> Tree(<<defun, Quote(foo), Q("a"),
                               Plus2(Tree(<<Sym(bar), Var("a")>>), Lit("1"))>>)
      [] tag = "use" -> Tree(<<Sym(foo), Lit("5")>>)
      [] tag \in {"1", "2", "3"} -> Tree(<<print, Lit(tag)>>)
Orders ==
    { o \in [1..3 -> {"bar", "foo", "use"}] : \A i, j \in 1..3 : o[i] = o[j] => i = j }
BlocksPrograms ==
    { Program("blocks", [order |-> o], [i \in 1..3 |-> BlockOf(o[i])]) :
        o \in Orders \cup {<<"1", "2", "3">>} }

\* (let 'x 1 FIRST) SECOND: a let in the first block, around a defun of foo or a
\* read of x; the second block reads x, reads foo, or calls foo
ScopesBlocks(first, second) ==
    <<Tree(<<let, Q("x"), Lit("1"),
             IF first = "defun" THEN Def1(foo) ELSE Plus1(Var("x"))>>),
      CASE second = "x" -> Plus1(Var("x"))
        [] second = "foo" -> Plus1(Sym(foo))
        [] second = "call" -> Tree(<<Sym(foo), Lit("4")>>)>>
ScopesPrograms ==
    { Program("scopes", [first |-> a, second |-> b], ScopesBlocks(a, b)) :
        a \in {"defun", "read"}, b \in {"x", "foo", "call"} }

\* (if C THEN) and (if C THEN ELSE). A branch is a print, a literal, a sum, a
\* defun, a name nobody binds, or a call that fails; THEN is about 1 and foo, ELSE
\* about 2 and bar
BranchKinds == {"print", "lit", "plus", "defun", "name", "bad"}
BranchExpr(k, tag) ==
    CASE k = "print" -> Tree(<<print, Lit(tag)>>)
      [] k = "lit" -> Lit(tag)
      [] k = "plus" -> Plus1(Lit(tag))
      [] k = "defun" -> Def1(IF tag = "1" THEN foo ELSE bar)
      [] k = "name" -> Sym(zz)
      [] k = "bad" -> Plus1(Sym(zz))
IfPrograms ==
    { Program("if", [c |-> c, then |-> a, else |-> b],
              <<Tree(<<if, CondExpr(c), BranchExpr(a, "1")>>
                     \o (IF b = "absent" THEN <<>> ELSE <<BranchExpr(b, "2")>>))>>) :
        c \in Conds, a \in BranchKinds, b \in BranchKinds \cup {"absent"} }

\* (defun 'list '* (+ *))
\* (let 'ls (list 4 5 ..) (if (print 7) 1 2 .. *ls)): an if with `direct` arguments
\* written out, the first of them the call (print 7), and `spliced` more from *ls
MaxIfArgs == 5
Lits(first, n) == [i \in 1..n |-> Lit(<<"1", "2", "3", "4", "5", "6", "7">>[first + i - 1])]
IfArityBlocks(direct, spliced) ==
    LET written == IF direct = 0 THEN <<>>
                   ELSE <<Tree(<<print, Lit("7")>>)>> \o Lits(1, direct - 1)
    IN  <<DefList,
          Tree(<<let, Q("l"), Tree(<<Sym(list)>> \o Lits(4, spliced)),
                 Tree(<<if>> \o written \o <<Splice(<<"l">>)>>)>>)>>
IfArityPrograms ==
    { Program("ifarity", [direct |-> d, spliced |-> k], IfArityBlocks(d, k)) :
        d \in 0..4, k \in 0..3 } 

\* (defun 'list '* (+ *))
\* (let 'l (list ..) (cond C1 A1 C2 A2)): the two pairs written out ("direct"),
\* the second pair supplied by *l ("mixed"), or both ("spliced"). A written action
\* is (+ 5) / (+ 6) or (print 5) / (print 6); a spliced one is the value 5 or 6.
CondAction(act, i) ==
    IF act = "print" THEN Tree(<<print, Lit(<<"5", "6">>[i])>>)
    ELSE Plus1(Lit(<<"5", "6">>[i]))
CondBlocks(c1, c2, act, how) ==
    LET pair1 == <<CondExpr(c1), CondAction(act, 1)>>
        pair2 == <<CondExpr(c2), CondAction(act, 2)>>
        vals1 == <<Lit(c1.v), Lit("5")>>
        vals2 == <<Lit(c2.v), Lit("6")>>
        written == CASE how = "direct" -> pair1 \o pair2
                     [] how = "mixed" -> pair1 \o <<Splice(<<"l">>)>>
                     [] how = "spliced" -> <<Splice(<<"l">>)>>
        spliced == CASE how = "direct" -> <<>>
                     [] how = "mixed" -> vals2
                     [] how = "spliced" -> vals1 \o vals2
    IN  <<DefList,
          Tree(<<let, Q("l"), Tree(<<Sym(list)>> \o spliced), Tree(<<cond>> \o written)>>)>>
CondPrograms ==
    { Program("cond", q, CondBlocks(q.c1, q.c2, q.act, q.how)) :
        q \in { q \in [c1 : Conds, c2 : Conds, act : {"plus", "print"},
                       how : {"direct", "mixed", "spliced"}] :
                  /\ q.how # "direct" => ~q.c2.call
                  /\ q.how = "spliced" => ~q.c1.call /\ q.act = "plus" } }

\* The countdown of src/tests.py, from N:
\*   (let 'f (defun 'f 'x (if (eq x 0) (true) (f (- x 1)))) (f N))
\* or with the defun as a block of its own
eq == Sym(<<"e", "q">>)
true == Sym(<<"t", "r", "u", "e">>)
minus == Sym(<<"-">>)
Countdown ==
    Tree(<<defun, Q("f"), Q("x"),
           Tree(<<if, Tree(<<eq, Var("x"), Lit("0")>>), Tree(<<true>>),
                  Tree(<<Var("f"), Tree(<<minus, Var("x"), Lit("1")>>)>>)>>)>>)
RecurBlocks(n, how) ==
    IF how = "let" THEN <<Tree(<<let, Q("f"), Countdown, Tree(<<Var("f"), Lit(n)>>)>>)>>
    ELSE <<Countdown, Tree(<<Var("f"), Lit(n)>>)>>
RecurPrograms ==
    { Program("recur", [from |-> n, how |-> how], RecurBlocks(n, how)) :
        n \in {"0", "1"}, how \in {"let", "blocks"} }

\* (defun 'list '* (+ *))
\* (defun 'foo 'a ['b] (+ 7)), or (defun 'foo 'a ['b] '* (+ *)), which returns its *
\* (let 'l (list 4 ..) (foo 1 .. [*l])): a function of `fixed` parameters, with or
\* without '*, called with `written` arguments written out and `spliced` more from
\* *l; the call node is built from foo when the block is parsed ("direct"), or the
\* function is reached through the local name g: (let 'l (list 4 ..) 'g foo (g ..))
ArityBlocks(q) ==
    LET params == SubSeq(<<Q("a"), Q("b")>>, 1, q.fixed)
                      \o (IF q.variadic THEN <<StarParam>> ELSE <<>>)
        args == Lits(1, q.written) \o (IF q.splice THEN <<Splice(<<"l">>)>> ELSE <<>>)
        ls == Tree(<<Sym(list)>> \o Lits(4, q.spliced))
    IN  <<DefList,
          Tree(<<defun, Quote(foo)>> \o params
                   \o <<Plus1(IF q.variadic THEN Star ELSE Lit("7"))>>),
          IF q.path = "direct"
          THEN Tree(<<let, Q("l"), ls, Tree(<<Sym(foo)>> \o args)>>)
          ELSE Tree(<<let, Q("l"), ls, Q("g"), Sym(foo), Tree(<<Var("g")>> \o args)>>)>>
ArityPrograms ==
    { Program("arity", q, ArityBlocks(q)) :
        q \in { q \in [fixed : 1..2, variadic : BOOLEAN, path : {"direct", "maybe"},
                       written : 0..2, splice : BOOLEAN, spliced : 0..2] :
                  ~q.splice => q.spliced = 0 } }

\* (defun 'list '* (+ *)) (defun 'foo 'a (+ a))
\* (let 'f V (f 1)), or ((+ V) 1): a call whose selector is a name bound to V, or
\* a call that returns V; V is the integer 2, the string "zz", the string "foo"
\* (which is also the name of a function), the list (4), or no value
Selector(v) ==
    CASE v = "int" -> Lit("2")
      [] v = "str" -> Quote(zz)
      [] v = "fname" -> Quote(foo)
      [] v = "list" -> Tree(<<Sym(list), Lit("4")>>)
      [] v = "none" -> Tree(<<Sym(<<"n", "o", "n", "e">>)>>)
NotFnBlocks(v, how) ==
    <<DefList, Def1(foo),
      IF how = "name" THEN Tree(<<let, Q("f"), Selector(v), Tree(<<Var("f"), Lit("1")>>)>>)
      ELSE Tree(<<Plus1(Selector(v)), Lit("1")>>)>>
NotFnPrograms ==
    { Program("notfn", [v |-> v, how |-> how], NotFnBlocks(v, how)) :
        v \in {"int", "str", "fname", "list", "none"}, how \in {"name", "call"} }

\* (defun 'list '* (+ *))
\* (let 'l (list 4 ..) (let 'a (print 7) 'b (defun 'foo 'a (+ a)) *l)): a let with
\* the first `written` of these four arguments written out and `spliced` more
\* from *l
LetArityBlocks(written, spliced) ==
    <<DefList,
      Tree(<<let, Q("l"), Tree(<<Sym(list)>> \o Lits(4, spliced)),
             Tree(<<let>>
                  \o SubSeq(<<Q("a"), Tree(<<print, Lit("7")>>), Q("b"), Def1(foo)>>,
                            1, written)
                  \o <<Splice(<<"l">>)>>)>>)>>
LetArityPrograms ==
    { Program("letarity", [written |-> d, spliced |-> k], LetArityBlocks(d, k)) :
        d \in 0..4, k \in 0..3 }

\* (defun 'list '* (+ *))
\* (let 'l (list 4 ..) (cond (print 7) (defun 'foo 'a (+ a)) (print 8) (+ 9) *l)):
\* a cond with the first `written` of these four arguments written out and
\* `spliced` more from *l
CondArityBlocks(written, spliced) ==
    <<DefList,
      Tree(<<let, Q("l"), Tree(<<Sym(list)>> \o Lits(4, spliced)),
             Tree(<<cond>>
                  \o SubSeq(<<Tree(<<print, Lit("7")>>), Def1(foo),
                              Tree(<<print, Lit("8")>>), Plus1(Lit("9"))>>,
                            1, written)
                  \o <<Splice(<<"l">>)>>)>>)>>
CondArityPrograms ==
    { Program("condarity", [written |-> d, spliced |-> k], CondArityBlocks(d, k)) :
        d \in 0..4, k \in 0..3 }

\* (defun 'list '* (+ *))
\* (defun NAME P.. (+ 1)) or (lambda CAPTURES P.. (+ 1)): NAME is 'f or '*,
\* CAPTURES is (list) or '*, and P.. is up to three parameters, each 'a or '*
StarParamLists ==
    UNION { [1..n -> {"a", "*"}] : n \in 0..3 }
StarBlocks(kw, head, plist) ==
    <<DefList,
      Tree(<<IF kw = "defun" THEN defun ELSE lambda,
             IF head = "star" THEN StarParam
             ELSE IF kw = "defun" THEN Q("f") ELSE Tree(<<Sym(list)>>)>>
           \o [i \in 1..Len(plist) |-> Q(plist[i])]
           \o <<Plus1(Lit("1"))>>)>>
StarPrograms ==
    { Program("star", [kw |-> kw, head |-> head, plist |-> plist],
              StarBlocks(kw, head, plist)) :
        kw \in {"defun", "lambda"}, head \in {"plain", "star"}, plist \in StarParamLists }

\* (defun 'list '* (+ *))
\* (let 'l (list 4 ..) (print 1 *l 2)), or (defun 'g '* (print 1 TOK 2)) (g 4 ..)
\* with TOK the token * or **: the 1 and the 2 are there or not, and there are
\* `count` elements 4, 5, ..
SpliceBlocks(tok, count, before, after) ==
    LET line == Tree(<<print>> \o (IF before THEN <<Lit("1")>> ELSE <<>>)
                     \o <<CASE tok = "name" -> Splice(<<"l">>)
                             [] tok = "star" -> Star
                             [] tok = "starstar" -> Splice(<<"*">>)>>
                     \o (IF after THEN <<Lit("2")>> ELSE <<>>))
    IN  IF tok = "name"
        THEN <<DefList, Tree(<<let, Q("l"), Tree(<<Sym(list)>> \o Lits(4, count)), line>>)>>
        ELSE <<Tree(<<defun, Q("g"), StarParam, line>>),
               Tree(<<Var("g")>> \o Lits(4, count))>>
SplicePrograms ==
    { Program("splice", [tok |-> tok, count |-> k, before |-> b, after |-> a],
              SpliceBlocks(tok, k, b, a)) :
        tok \in {"name", "star", "starstar"}, k \in 0..3, b \in BOOLEAN, a \in BOOLEAN }

\* (defun 'list '* (+ *))
\* one call whose arguments print as they are evaluated: (print k) prints k and is
\* falsy, (not (print k)) prints k and is truthy
\*   print   (print (print 1) (print 2) (print 3))
\*   nested  (print (print (print 1) (print 2)) (print 3))
\*   user    (list (print 1) (print 2) (print 3))
\*   maybe   (let 'g list (g (print 1) (print 2) (print 3)))
\*   let     (let 'a (print 1) 'b (print 2) (print 3))
\*   if      (if C1 (print 2) (print 3))
\*   cond    (cond C1 (print 2) C3 (print 4))
not == Sym(<<"n", "o", "t">>)
Say(k) == Tree(<<print, Lit(k)>>)
SayCond(k, holds) == IF holds THEN Tree(<<not, Say(k)>>) ELSE Say(k)
OrderBlocks(shape, first, second) ==
    <<DefList,
      CASE shape = "print" -> Tree(<<print, Say("1"), Say("2"), Say("3")>>)
        [] shape = "nested" -> Tree(<<print, Tree(<<print, Say("1"), Say("2")>>), Say("3")>>)
        [] shape = "user" -> Tree(<<Sym(list), Say("1"), Say("2"), Say("3")>>)
        [] shape = "maybe" -> Tree(<<let, Q("g"), Sym(list),
                                     Tree(<<Var("g"), Say("1"), Say("2"), Say("3")>>)>>)
        [] shape = "let" -> Tree(<<let, Q("a"), Say("1"), Q("b"), Say("2"), Say("3")>>)
        [] shape = "if" -> Tree(<<if, SayCond("1", first), Say("2"), Say("3")>>)
        [] shape = "cond" -> Tree(<<cond, SayCond("1", first), Say("2"),
                                    SayCond("3", second), Say("4")>>)>>
OrderPrograms ==
    { Program("order", [shape |-> sh, first |-> a, second |-> b], OrderBlocks(sh, a, b)) :
        sh \in {"print", "nested", "user", "maybe", "let", "if", "cond"},
        a \in BOOLEAN, b \in BOOLEAN }

\* every text of up to MaxSrcLen of the characters ( ) + 1 and the space, and some
\* longer ones: a call that runs and then a malformed one, nested calls that end
\* early, a comment, a string
MaxSrcLen == 4
Chars(str) ==
    CASE str = "(+ 1)(+ 1" -> <<"(", "+", " ", "1", ")", "(", "+", " ", "1">>
      [] str = "(+ 1)+" -> <<"(", "+", " ", "1", ")", "+">>
      [] str = "(+ 1))" -> <<"(", "+", " ", "1", ")", ")">>
      [] str = "(+ 1) (" -> <<"(", "+", " ", "1", ")", " ", "(">>
      [] str = "(+ 1)()" -> <<"(", "+", " ", "1", ")", "(", ")">>
      [] str = "(+ (+ 1" -> <<"(", "+", " ", "(", "+", " ", "1">>
      [] str = "(+ 1 (" -> <<"(", "+", " ", "1", " ", "(">>
      [] str = "(+ 1 ()" -> <<"(", "+", " ", "1", " ", "(", ")">>
      [] str = "((+ 1)" -> <<"(", "(", "+", " ", "1", ")">>
      [] str = "(+ 1)#(" -> <<"(", "+", " ", "1", ")", "#", "(">>
      [] str = "(+ 1#)" -> <<"(", "+", " ", "1", "#", ")">>
      [] str = "(+ \"1" -> <<"(", "+", " ", "\"", "1">>
      [] str = "(+ 1)(+ 1)" -> <<"(", "+", " ", "1", ")", "(", "+", " ", "1", ")">>
SourceTexts ==
    UNION { [1..n -> {"(", ")", "+", "1", " "}] : n \in 0..MaxSrcLen }
        \cup { Chars(str) : str \in {"(+ 1)(+ 1", "(+ 1)+", "(+ 1))", "(+ 1) (", "(+ 1)()",
                                      "(+ (+ 1", "(+ 1 (", "(+ 1 ()", "((+ 1)", "(+ 1)#(",
                                      "(+ 1#)", "(+ \"1", "(+ 1)(+ 1)"} }
ParsePrograms ==
    { Program("parse", [src |-> src], scan_source(normalise(src), 1, <<>>)) :
        src \in SourceTexts }

\* (defun 'list '* (+ *))
\* (let N 9 (let 'g list (F ARG))): F is list, the call node of the function, or g,
\* a maybe-call; ARG is 5, 'x, '5, (list 4) or list; N is 'x, so that x is a name
\* that can be looked up, or 'y
GivenArg(given) ==
    CASE given = "int" -> Lit("5")
      [] given = "symbol" -> Q("x")
      [] given = "digits" -> Q("5")
      [] given = "list" -> Tree(<<Sym(list), Lit("4")>>)
      [] given = "function" -> Sym(list)
ResolveOnceBlocks(given, how, known) ==
    <<DefList,
      Tree(<<let, IF known THEN Q("x") ELSE Q("y"), Lit("9"),
             Tree(<<let, Q("g"), Sym(list),
                    Tree(<<IF how = "maybe" THEN Var("g") ELSE Sym(list),
                           GivenArg(given)>>)>>)>>)>>
ResolveOncePrograms ==
    { Program("resolveonce", [given |-> given, how |-> how, known |-> known],
              ResolveOnceBlocks(given, how, known)) :
        given \in {"int", "symbol", "digits", "list", "function"},
        how \in {"direct", "maybe"}, known \in BOOLEAN }

\* (defun 'list '* (+ *)) (defun 'foo '* (+ *))
\* (let 'l (list 4 ..) 'g foo (g 1 .. [*l] [(print 3)])): a maybe-call of the
\* function foo, which returns its arguments, with `lead` arguments written out,
\* then *l of `len` elements, then an argument that is a call; the selector is the
\* name g or the call (+ foo)
MaybeArgsBlocks(q) ==
    LET args == Lits(1, q.lead) \o (IF q.expands THEN <<Splice(<<"l">>)>> ELSE <<>>)
                    \o (IF q.trailing THEN <<Say("3")>> ELSE <<>>)
        ls == Tree(<<Sym(list)>> \o Lits(4, q.len))
    IN  <<DefList,
          Tree(<<defun, Quote(foo), StarParam, Plus1(Star)>>),
          Tree(<<let, Q("l"), ls, Q("g"), Sym(foo),
                 Tree(<<IF q.via = "name" THEN Var("g") ELSE Plus1(Sym(foo))>> \o args)>>)>>
MaybeArgsPrograms ==
    { Program("maybeargs", q, MaybeArgsBlocks(q)) :
        q \in { q \in [lead : 0..2, expands : BOOLEAN, len : 0..2, trailing : BOOLEAN,
                       via : {"name", "call"}] :
                  ~q.expands => q.len = 0 } }

\* (defun 'list '* (+ *)) (defun 'f 'x BODY)
\* (list (F 1) (F 1) (F 0)): the function f invoked three times, twice with the
\* same argument, by its own call node or through the local name g; BODY is a
\* call of a built-in, a let, an if, a print, or an if that calls f again (the
\* last one by its own call node only, which keeps the nesting within MaxDepth)
AgainBody(kind) ==
    CASE kind = "sum" -> Plus2(Var("x"), Lit("1"))
      [] kind = "let" -> Tree(<<let, Q("y"), Var("x"), Plus2(Var("y"), Var("y"))>>)
      [] kind = "if" -> Tree(<<if, Tree(<<eq, Var("x"), Lit("0")>>), Lit("5"), Lit("6")>>)
      [] kind = "say" -> Tree(<<print, Var("x")>>)
      [] kind = "recur" ->
            Tree(<<if, Tree(<<eq, Var("x"), Lit("0")>>), Tree(<<true>>),
                   Tree(<<Var("f"), Tree(<<minus, Var("x"), Lit("1")>>)>>)>>)
AgainBlocks(kind, how) ==
    LET F == IF how = "maybe" THEN Var("g") ELSE Var("f")
        line == Tree(<<Sym(list), Tree(<<F, Lit("1")>>), Tree(<<F, Lit("1")>>),
                       Tree(<<F, Lit("0")>>)>>)
    IN  <<DefList,
          Tree(<<defun, Q("f"), Q("x"), AgainBody(kind)>>),
          IF how = "maybe" THEN Tree(<<let, Q("g"), Var("f"), line>>) ELSE line>>
AgainPrograms ==
    { Program("again", [kind |-> kind, how |-> how], AgainBlocks(kind, how)) :
        kind \in {"sum", "let", "if", "say", "recur"}, how \in {"direct", "maybe"} }
        \ { Program("again", [kind |-> "recur", how |-> "maybe"],
                     AgainBlocks("recur", "maybe")) }

\* programs whose blocks depend on what an earlier block did to the global scope,
\* or not: a function defined and then called with the right or the wrong number
\* of arguments, a function that calls one defined in a later block, the built-in
\* + redefined and then called, a line printed before a block that does not end;
\* and programs whose calls name built-ins, or a function the same block defines
\* (after the call, or before it)
\* (defun 'NAME 'x (+ D))
DefReturning(name, d) == Tree(<<defun, Q(name), Q("x"), Plus1(Lit(d))>>)
ParseFirstBlocks(shape) ==
    CASE shape = "plain" ->
            <<Tree(<<defun, Quote(foo), Q("a"), Plus1(Var("a"))>>),
              Tree(<<Sym(foo), Lit("1")>>)>>
      [] shape = "arity" ->
            <<Tree(<<defun, Quote(foo), Q("a"), Plus1(Lit("7"))>>),
              Tree(<<Sym(foo), Lit("1"), Lit("2")>>)>>
      [] shape = "forward" ->
            <<Tree(<<defun, Q("f"), Q("x"), Tree(<<Var("g"), Var("x")>>)>>),
              Tree(<<defun, Q("g"), Q("y"), Plus2(Var("y"), Lit("1"))>>),
              Tree(<<Var("f"), Lit("1")>>)>>
      [] shape = "redefine" ->
            <<Tree(<<defun, Q("+"), Q("a"), Q("b"), Tree(<<minus, Var("a"), Var("b")>>)>>),
              Tree(<<plus, Lit("5"), Lit("3")>>)>>
      [] shape = "builtins" ->
            <<Tree(<<print, Lit("1")>>), Plus2(Lit("1"), Lit("2"))>>
      [] shape = "sameblock" ->
            <<Tree(<<let, Q("a"), DefReturning("f", "4"), Tree(<<Var("f"), Lit("1")>>)>>),
              Plus2(Lit("2"), Lit("3"))>>
      [] shape = "early" ->
            <<Tree(<<let, Q("r"), Tree(<<Var("f"), Lit("1")>>), Q("a"),
                     DefReturning("f", "4"), Var("r")>>)>>
      [] shape = "malformed" ->
            scan_source(normalise(<<"(", "p", "r", "i", "n", "t", " ", "1", ")",
                                    "(", "+", " ", "1">>), 1, <<>>)
ParseFirstPrograms ==
    { Program("parsefirst", [variant |-> shape], ParseFirstBlocks(shape)) :
        shape \in {"plain", "arity", "forward", "redefine", "malformed", "builtins",
                    "sameblock", "early"} }

\* (defun 'h 'x (+ 2)) [(defun 'f 'x (+ 1))] and a block that calls (f 0): as it
\* is, inside (let 'f h ..), after (defun 'f 'x (+ 3)) was evaluated as a value
\* of the enclosing let, or both; `known` says whether f is in the global scope
\* when that block is parsed
BindingBlocks(known, rebind) ==
    LET use == Tree(<<Var("f"), Lit("0")>>)
        redefined == Tree(<<let, Q("a"), DefReturning("f", "3"), use>>)
    IN  <<DefReturning("h", "2")>>
            \o (IF known THEN <<DefReturning("f", "1")>> ELSE <<>>)
            \o <<CASE rebind = "none" -> use
                    [] rebind = "let" -> Tree(<<let, Q("f"), Var("h"), use>>)
                    [] rebind = "defun" -> redefined
                    [] rebind = "both" -> Tree(<<let, Q("f"), Var("h"), redefined>>)>>
BindingPrograms ==
    { Program("binding", [known |-> known, rebind |-> rebind],
              BindingBlocks(known, rebind)) :
        known \in BOOLEAN, rebind \in {"none", "let", "defun", "both"} }
        \ { Program("binding", [known |-> FALSE, rebind |-> "none"],
                     BindingBlocks(FALSE, "none")) }

\* (defun 'list '* (+ *)) (flatten ARG): ARG is a list (empty, flat, nested, nested
\* with empty lists inside), a value that is no sequence (an integer, no value, a
\* function), a string, or a list that holds strings (also the empty string)
flatten == Sym(<<"f", "l", "a", "t", "t", "e", "n">>)
ListOf(items) == Tree(<<Sym(list)>> \o items)
FlattenArg(given) ==
    CASE given = "empty" -> ListOf(<<>>)
      [] given = "flat" -> ListOf(<<Lit("1"), Lit("2")>>)
      [] given = "nested" -> ListOf(<<ListOf(<<Lit("1"), Lit("2")>>), Lit("3")>>)
      [] given = "deep" ->
            ListOf(<<ListOf(<<ListOf(<<Lit("1")>>)>>), ListOf(<<>>),
                     ListOf(<<Lit("2"), ListOf(<<Lit("3")>>)>>)>>)
      [] given = "int" -> Lit("5")
      [] given = "none" -> Tree(<<Sym(<<"n", "o", "n", "e">>)>>)
      [] given = "function" -> Sym(list)
      [] given = "string" -> Quote(<<"a", "b">>)
      [] given = "strings" -> ListOf(<<Quote(<<"a", "b">>), ListOf(<<Q("c"), Lit("1")>>)>>)
      [] given = "blank" -> ListOf(<<Quote(<<>>), Lit("1")>>)
FlattenGiven ==
    {"empty", "flat", "nested", "deep", "int", "none", "function", "string", "strings",
     "blank"}
FlattenPrograms ==
    { Program("flatten", [given |-> given, how |-> how],
              <<DefList,
                IF how = "direct" THEN Tree(<<flatten, FlattenArg(given)>>)
                ELSE Tree(<<let, Q("l"), FlattenArg(given), Tree(<<flatten, Var("l")>>)>>)>>) :
        given \in FlattenGiven, how \in {"direct", "let"} }

Programs ==
    LetPrograms \cup CallPrograms \cup BranchPrograms \cup LookupPrograms
        \cup LambdaPrograms \cup BlocksPrograms \cup ScopesPrograms \cup IfPrograms
        \cup {q \in IfArityPrograms : q.p.direct + q.p.spliced <= MaxIfArgs}
        \cup CondPrograms \cup RecurPrograms \cup ArityPrograms
        \cup NotFnPrograms \cup LetArityPrograms \cup CondArityPrograms
        \cup StarPrograms \cup SplicePrograms \cup OrderPrograms
        \cup ParsePrograms \cup ResolveOncePrograms
        \cup MaybeArgsPrograms \cup AgainPrograms \cup ParseFirstPrograms
        \cup BindingPrograms \cup FlattenPrograms

\* the module-level table builtin_calls of the file that runs

\* a run that takes the table itself for its global scope: what the run before
\* wrote is in it
run_global_shared(table, left) == left

\* global_scope = copy(builtin_calls): the table, whatever the global scope of the
\* run before was left holding
run_global(table, left) == table

\* how a run ended
Outcome == [result |-> result, out |-> mach.out, err |-> mach.err, glob |-> mach.glob]

Init ==
    /\ impl \in {"main", "calls"}
    /\ prog \in Programs
    /\ idx = 0
    /\ mach = Machine(run_global(StartGlobal, StartGlobal))
    /\ stack = <<>>
    /\ result = None
    /\ phase = "idle"
    /\ earlier = <<>>

\* run_source(source) once more in the same process: classes made by type(...)
\* are new objects, every other piece of state starts as in the first run
RunAgain ==
    /\ phase = "done" /\ Len(earlier) < MaxRuns - 1
    /\ earlier' = Append(earlier, Outcome)
    /\ idx' = 0
    /\ mach' = [Machine(run_global(StartGlobal, mach.glob)) EXCEPT !.nid = mach.nid,
                                                                   !.stored = mach.stored]
    /\ stack' = <<>>
    /\ result' = None
    /\ phase' = "idle"
    /\ UNCHANGED <<impl, prog>>

Next ==
    \/ main_run_block
    \/ run_block
    \/ Resolve
    \/ EagerPrepare
    \/ Descend
    \/ Prepare
    \/ Advance
    \/ Apply
    \/ Return
    \/ RunAgain

Spec == Init /\ [][Next]_vars

(***************************************************************************)
(* Properties.                                                             *)
(***************************************************************************)
Events(kind) == {i \in DOMAIN mach.log : mach.log[i].e = kind}
Done == phase = "done"
Failed(kind, name) == Done /\ mach.err.kind = kind /\ mach.err.sym = name
x == Var("x")
y == Var("y")
w == Var("w")

\* C1: once a let has returned or failed, the local scope of the enclosing frame
\* holds exactly the names and values it held before the let; in
\* (let 'x 1 (+ (let 'N 2 'y V BODY) (+ R))), once the inner let has returned, a
\* reference R to a name that only the inner let bound is an unknown symbol, and
\* a reference to x gets the outer value 1 again.
C1_LetRestoresScope ==
    /\ \A i \in Events("let") : mach.log[i].after = mach.log[i].before
    /\ (Done /\ prog.fam = "let"
          /\ \E i \in Events("let") : mach.log[i].err = NoErr) =>
        LET inner == mach.log[CHOOSE i \in Events("let") :
                                  \A j \in Events("let") : i <= j]
        IN  IF prog.p.r = "x"
            THEN Ok(mach) /\ result = I(Num(inner.val) + 1)
            ELSE Failed("UnknownSymbol", Var(prog.p.r))

\* an inner let that bound x to another value and the new name y has returned, and
\* the run went on to read x, or to fail on y, outside it
C1_Witness ==
    /\ Done /\ prog.fam = "let" /\ prog.p.n = "x"
    /\ Ok(mach) \/ Failed("UnknownSymbol", y)
    /\ \E i \in Events("let") :
          LET ev == mach.log[i]
          IN  /\ ev.err = NoErr
              /\ x \in DOMAIN ev.before /\ y \notin DOMAIN ev.before
              /\ ev.bound[x] # ev.before[x] /\ y \in DOMAIN ev.bound

Range(seq) == {seq[i] : i \in DOMAIN seq}

\* C2: the body of a user-defined function starts in a local scope that holds only
\* the function's captures, its bound parameters and `*`; a body that reads x,
\* bound only by the let around the call, fails with the unknown-symbol error.
C2_FreshScope ==
    /\ \A i \in Events("call") :
          LET ev == mach.log[i]
          IN  DOMAIN ev.scope \subseteq DOMAIN ev.cls.captures \cup Range(ev.cls.arg_names)
    /\ (Done /\ prog.fam = "call" /\ prog.p.ref = "x"
          /\ Events("call") # {}) => Failed("UnknownSymbol", x)

\* C2 for the forms of src/calls.py alone: BaseUserCall.prepare starts from dict()
C2_FreshScope_calls == impl = "calls" => C2_FreshScope

\* a function was called from inside (let 'x 1 ...) and its body read x
C2_Witness ==
    /\ Done /\ prog.fam = "call" /\ prog.p.ref = "x"
    /\ \E i \in Events("call") : x \in DOMAIN mach.log[i].caller

\* the branch the conditions of a "branch" program select
Taken ==
    IF prog.p.form = "if" THEN (IF prog.p.c1.v = "1" THEN "foo" ELSE "bar")
    ELSE IF prog.p.c1.v = "1" THEN "foo"
    ELSE IF prog.p.c2.v = "1" THEN "bar"
    ELSE "none"
NameOfBranch(b) == IF b = "foo" THEN Sym(foo) ELSE Sym(bar)
Other(b) == IF b = "foo" THEN "bar" ELSE "foo"

\* C3: an if or cond whose branches are defuns adds to global only the name the
\* taken branch defines, never the name of a branch not taken, and the first later
\* call to a name that was not defined fails with the unknown-symbol error.
C3_UntakenBranchDefinesNothing ==
    prog.fam = "branch" =>
        /\ \A b \in {"foo", "bar"} :
              /\ NameOfBranch(b) \in DOMAIN mach.glob => Taken = b
              /\ (idx >= 1 /\ Taken = b) => NameOfBranch(b) \in DOMAIN mach.glob
        /\ Done =>
              LET missing == IF Taken = prog.p.first THEN Other(prog.p.first)
                             ELSE prog.p.first
              IN  /\ Failed("UnknownSymbol", NameOfBranch(missing))
                  /\ idx = (IF Taken = prog.p.first THEN 2 ELSE 1)

\* an if or cond took the branch that defines bar; the call to bar returned and the
\* call to foo has failed
C3_Witness ==
    /\ prog.fam = "branch" /\ Done /\ Taken = "bar" /\ prog.p.first = "bar"
    /\ idx = 2 /\ result = I(2)
    /\ Failed("UnknownSymbol", Sym(foo))

\* the call mentions the name: as an argument, spliced, or as its selector
Mentions(call, name) ==
    \/ \E i \in DOMAIN call.args : call.args[i] \in {name, S(<<"*">> \o name.v)}
    \/ call.name = name
    \/ call.cls.kind \in {"maybe", "lambda"}

\* C4: every lookup of a name returns the value local binds to it when local binds
\* it, else the value global binds to it, and when neither binds it raises the
\* unknown-symbol error that names the symbol and the call it is an argument of.
C4_LocalThenGlobal ==
    \A i \in Events("lookup") :
        LET ev == mach.log[i]
        IN  IF ev.local # <<>> THEN ev.ret.err = NoErr /\ ev.ret.val = ev.local[1]
            ELSE IF ev.global # <<>> THEN ev.ret.err = NoErr /\ ev.ret.val = ev.global[1]
            ELSE /\ ev.ret.err.kind = "UnknownSymbol"
                 /\ ev.ret.err.sym = ev.name
                 /\ IsCallNode(ev.ret.err.call) /\ Mentions(ev.ret.err.call, ev.name)

\* a name that both scopes bind, to different values, was looked up and the run
\* ended with the local value
C4_Witness ==
    /\ Done /\ prog.fam = "lookup" /\ Ok(mach) /\ result = I(5)
    /\ \E i \in Events("lookup") :
          LET ev == mach.log[i]
          IN  ev.local # <<>> /\ ev.global # <<>> /\ ev.local # ev.global

f == Var("f")
\* the classes lambda made: anonymous, so named ''
IsLambdaClass(cls) == cls.name = S(<<>>)

\* C5: a lambda stores for each captured name the value local binds to it when the
\* lambda call is applied, and every invocation of it sees that value, also inside
\* a let that has bound the name to another value: in
\* (let 'f V1 (let 'g (lambda CAPTURES (+ f)) (let 'f V2 USE))) each (g) is V1.
C5_LambdaCaptures ==
    /\ \A i \in Events("call") :
          LET ev == mach.log[i]
          IN  \A k \in DOMAIN ev.cls.captures :
                  k \notin Range(ev.cls.arg_names) =>
                      k \in DOMAIN ev.scope /\ ev.scope[k] = ev.cls.captures[k]
    /\ prog.fam = "lambda" =>
          LET v1 == IntOfToken(<<prog.p.v1>>)
              v2 == IntOfToken(<<prog.p.v2>>)
          IN  /\ \A i \in Events("defun") :
                    IsLambdaClass(mach.log[i].cls) =>
                        mach.log[i].cls.captures = DictSet(EmptyDict, f, I(v1))
              /\ (Done /\ impl = "calls") =>
                    /\ Ok(mach)
                    /\ result = I(CASE prog.p.use = "once" -> v1
                                    [] prog.p.use = "twice" -> v1 + v1
                                    [] prog.p.use = "mixed" -> v1 + v2)

\* a lambda that captured f has been invoked inside a let that binds f to another
\* value, and the run is over
C5_Witness ==
    /\ Done /\ Ok(mach) /\ prog.fam = "lambda" /\ prog.p.v1 # prog.p.v2
    /\ \E i \in Events("call") :
          LET ev == mach.log[i]
          IN  /\ IsLambdaClass(ev.cls) /\ f \in DOMAIN ev.cls.captures
              /\ f \in DOMAIN ev.caller /\ ev.caller[f] # ev.cls.captures[f]

\* where the block with this tag stands in a "blocks" program, from 1
PosOf(tag) == CHOOSE i \in 1..3 : prog.p.order[i] = tag
BlockEvents == [i \in 1..Cardinality(Events("block")) |->
                    mach.log[CHOOSE k \in Events("block") :
                                 Cardinality({j \in Events("block") : j <= k}) = i]]

\* C6: the blocks are executed in source order, each one to completion before the
\* next starts: the k-th block started is the k-th of the source, no call is in
\* progress when a block starts, a function is in global exactly when the block
\* that defines it is over, and a call to a function defined by a later block
\* fails with the unknown-symbol error.
C6_BlocksInOrder ==
    /\ \A k \in DOMAIN BlockEvents : BlockEvents[k].idx = k - 1
    /\ idx <= Cardinality(Events("block")) /\ Cardinality(Events("block")) <= idx + 1
    /\ phase = "idle" => stack = <<>>
    /\ (prog.fam = "blocks" /\ prog.p.order[1] = "1") =>
          /\ mach.out = [i \in 1..Len(mach.out) |-> <<I(i)>>]
          /\ Len(mach.out) \in {idx, idx + 1}
          /\ Done => Ok(mach) /\ idx = 3
    /\ (prog.fam = "blocks" /\ prog.p.order[1] # "1") =>
          /\ \A tag \in {"foo", "bar"} :
                Sym(IF tag = "foo" THEN foo ELSE bar) \in DOMAIN mach.glob
                    <=> PosOf(tag) <= idx
          /\ Done =>
                IF PosOf("use") < PosOf("foo")
                THEN Failed("UnknownSymbol", Sym(foo)) /\ idx = PosOf("use") - 1
                ELSE IF PosOf("use") < PosOf("bar")
                THEN Failed("UnknownSymbol", Sym(bar)) /\ idx = PosOf("use") - 1
                ELSE Ok(mach) /\ result = I(7) /\ idx = 3

\* foo was defined before bar, which its body calls, and the call of foo after
\* both has returned
C6_Witness ==
    /\ prog.fam = "blocks" /\ prog.p.order = <<"foo", "bar", "use">>
    /\ Done /\ Ok(mach) /\ result = I(7)

\* C7: every block starts with an empty local scope and with the global scope the
\* block before it left: a name a let bound in the first block is unknown in the
\* second, a function the first block defined is known there.
C7_FreshLocalSharedGlobal ==
    /\ \A k \in DOMAIN BlockEvents :
          /\ BlockEvents[k].local = EmptyDict
          /\ \A i \in Events("defun") :
                (\E j \in Events("block") : i < j /\ mach.log[j] = BlockEvents[k]) =>
                    /\ mach.log[i].cls.name \in DOMAIN BlockEvents[k].global
                    /\ mach.log[i].cls.name \in DOMAIN mach.glob
    /\ (prog.fam = "scopes" /\ Done) =>
          CASE prog.p.second = "x" -> Failed("UnknownSymbol", x) /\ idx = 1
            [] prog.p.first = "defun" /\ prog.p.second = "foo" ->
                  Ok(mach) /\ IsClass(result) /\ result.name = Sym(foo)
            [] prog.p.first = "defun" /\ prog.p.second = "call" ->
                  Ok(mach) /\ result = I(4)
            [] OTHER -> Failed("UnknownSymbol", Sym(foo)) /\ idx = 1

\* the first block bound x in a let and defined foo inside it; the second block
\* has started with that foo in global
C7_Witness ==
    /\ prog.fam = "scopes" /\ prog.p.first = "defun" /\ idx >= 1
    /\ Len(BlockEvents) = 2
    /\ Sym(foo) \in DOMAIN BlockEvents[2].global
    /\ \E i \in Events("let") : x \in DOMAIN mach.log[i].bound

\* what an argument of a "let" program evaluates to in a scope: [ok, v], v the
\* value, or the first name that the scope does not bind
Known(name, scope) == [ok |-> name \in DOMAIN scope,
                       v |-> IF name \in DOMAIN scope THEN scope[name] ELSE name]
EvalShape(sh, scope) ==
    CASE sh.k = "lit" -> [ok |-> TRUE, v |-> I(3)]
      [] sh.k \in {"name", "call"} -> Known(Var(sh.n), scope)
      [] sh.k = "bad" -> Known(Sym(zz), scope)
      [] sh.k = "sum" ->
            IF ~Known(Var(sh.n), scope).ok THEN Known(Var(sh.n), scope)
            ELSE IF ~Known(y, scope).ok THEN Known(y, scope)
            ELSE [ok |-> TRUE, v |-> I(Num(scope[Var(sh.n)]) + Num(scope[y]))]
\* the scope around the inner let of a "let" program, and the inner let's first binding
Enclosing == DictSet(EmptyDict, x, I(1))
WithN(scope) == DictSet(scope, Var(prog.p.n), I(2))
FirstLet == mach.log[CHOOSE i \in Events("let") : \A j \in Events("let") : i <= j]

\* C8: (let 'N 2 'y V BODY) inside (let 'x 1 ...) evaluates V in the enclosing
\* scope {x: 1}, where the N of the same let is not bound, then BODY in that scope
\* extended with N and y, and returns BODY's value, whether BODY is a call or a
\* bare name.
C8_LetSemantics ==
    (prog.fam = "let" /\ Done) =>
        LET v == EvalShape(prog.p.v, Enclosing)
            extended == DictSet(WithN(Enclosing), y, v.v)
            body == EvalShape(prog.p.body, extended)
        IN  IF ~v.ok THEN Failed("UnknownSymbol", v.v)
            ELSE IF ~body.ok THEN Failed("UnknownSymbol", body.v)
            ELSE /\ Events("let") # {}
                 /\ FirstLet.err = NoErr
                 /\ FirstLet.bound = extended
                 /\ FirstLet.val = body.v

\* C8 where it holds: the forms of src/calls.py, BODY a call
C8_LetSemantics_calls_call_body ==
    (prog.fam = "let" /\ impl = "calls" /\ prog.p.body.k # "name") => C8_LetSemantics

\* an inner let whose value expression is a call that reads the x the same let
\* binds has returned
C8_Witness ==
    /\ prog.fam = "let" /\ Done /\ prog.p.n = "x" /\ prog.p.v = [k |-> "call", n |-> "x"]
    /\ prog.p.body.k = "sum"
    /\ \E i \in Events("let") : mach.log[i].err = NoErr /\ y \in DOMAIN mach.log[i].bound

\* the branch an "if" program must choose: its kind and what it is about
Chosen ==
    IF prog.p.c.v = "1" THEN [k |-> prog.p.then, tag |-> "1"]
    ELSE [k |-> prog.p.else, tag |-> "2"]
\* the run is over and was the evaluation of the chosen branch alone
OnlyChosenRan ==
    LET n == IntOfToken(<<Chosen.tag>>)
    IN  IF Chosen.k \in {"name", "bad"} THEN Failed("UnknownSymbol", Sym(zz))
        ELSE /\ Ok(mach)
             /\ CASE Chosen.k \in {"lit", "plus"} -> result = I(n)
                  [] Chosen.k \in {"print", "absent"} -> result = None
                  [] Chosen.k = "defun" ->
                        IsClass(result) /\ result.name = Sym(IF n = 1 THEN foo ELSE bar)
             /\ mach.out = IF Chosen.k = "print" THEN <<(<<I(n)>>)>> ELSE <<>>
             /\ Sym(foo) \in DOMAIN mach.glob <=> Chosen = [k |-> "defun", tag |-> "1"]
             /\ Sym(bar) \in DOMAIN mach.glob <=> Chosen = [k |-> "defun", tag |-> "2"]

\* C9: (if COND THEN [ELSE]) is THEN's value when COND is truthy, ELSE's when COND
\* is falsy and ELSE is there, no value when it is not; the branch not chosen is
\* never evaluated: no output, no global definition, no error from it.
C9_IfSemantics ==
    (prog.fam = "if" /\ Done) => OnlyChosenRan

\* C9, amended: the same, except that a branch that is a bare name is resolved with
\* the other arguments before the condition is looked at, chosen or not: if
\* nothing binds it the if fails with the unknown-symbol error; a branch that is a
\* call is evaluated only if chosen.
C9_IfSemantics_amended ==
    (prog.fam = "if" /\ Done) =>
        IF "name" \in {prog.p.then, prog.p.else}
        THEN Failed("UnknownSymbol", Sym(zz)) /\ mach.out = <<>>
        ELSE OnlyChosenRan

\* the condition was falsy, THEN is a call that would fail, ELSE a print: 2 was
\* printed and the if returned
C9_Witness ==
    /\ prog.fam = "if" /\ Done /\ Ok(mach)
    /\ prog.p.c.v = "0" /\ prog.p.then = "bad" /\ prog.p.else = "print"
    /\ mach.out = <<(<<I(2)>>)>>

\* the number of arguments of the if of an "ifarity" program, after *l is expanded
IfArgs == prog.p.direct + prog.p.spliced
\* the if was rejected for its number of arguments, and (print 7) never ran
IfRejected == Done /\ mach.err.kind = "Arity" /\ mach.err.sym = if /\ mach.out = <<>>
\* the if went through: its condition (print 7), when written out, was evaluated
IfAccepted == Done /\ Ok(mach) /\ (prog.p.direct >= 1 => mach.out = <<(<<I(7)>>)>>)

\* C10: an if is accepted only with 2 or 3 arguments, counted after *NAME
\* expansion; with fewer or more it is rejected with the arity error before its
\* condition is evaluated.
C10_IfArity ==
    (prog.fam = "ifarity" /\ Done) =>
        IF IfArgs \in {2, 3} THEN IfAccepted ELSE IfRejected

\* C10 as the code has it: at least 2 arguments, no upper limit
C10_IfArity_at_least_2 ==
    (prog.fam = "ifarity" /\ Done) =>
        IF IfArgs >= 2 THEN IfAccepted ELSE IfRejected

\* an if with four arguments, two of them spliced from *l, is over
C10_Witness ==
    /\ prog.fam = "ifarity" /\ Done /\ prog.p.direct = 2 /\ prog.p.spliced = 2

\* the pair a "cond" program must choose: 1, 2, or 0 when no condition is truthy
CondFirst == IF prog.p.c1.v = "1" THEN 1 ELSE IF prog.p.c2.v = "1" THEN 2 ELSE 0
\* whether pair i of a "cond" program has the action (print ..) written out
CondPrints(i) ==
    prog.p.act = "print" /\ (prog.p.how = "direct" \/ (prog.p.how = "mixed" /\ i = 1))
\* the cond returned the value of the first pair whose condition is truthy, or no
\* value, and no other action ran
CondChoseFirst ==
    /\ Ok(mach)
    /\ result = IF CondFirst = 0 \/ CondPrints(CondFirst) THEN None ELSE I(4 + CondFirst)
    /\ mach.out = IF CondFirst # 0 /\ CondPrints(CondFirst)
                  THEN <<(<<I(4 + CondFirst)>>)>> ELSE <<>>

\* C11: (cond C1 A1 C2 A2) returns the value of the action paired with the first
\* truthy condition, evaluates no other action, and returns no value when no
\* condition is truthy, also when *l supplies conditions and actions.
C11_CondSemantics ==
    (prog.fam = "cond" /\ Done) => CondChoseFirst

\* C11 where it holds: src/main.py; in src/calls.py a cond with every argument
\* written out, or with a truthy condition
C11_CondSemantics_written_or_matched ==
    (prog.fam = "cond" /\ (impl = "main" \/ prog.p.how = "direct" \/ CondFirst # 0))
        => C11_CondSemantics

\* a cond whose second pair came from *l, the only one with a truthy condition, has
\* returned that pair's action under the forms of src/calls.py
C11_Witness ==
    /\ prog.fam = "cond" /\ Done /\ impl = "calls" /\ prog.p.how = "mixed"
    /\ CondFirst = 2 /\ result = I(6)
    /\ \E i \in Events("apply") : mach.log[i].call.cls.kind = "cond"

\* C12: the execute entry point is entered exactly once per top-level block: every
\* entry comes right after a block has started, whatever the block nests and
\* however many user functions it invokes.
C12_OneExecutePerBlock ==
    /\ Cardinality(Events("execute")) = Cardinality(Events("block"))
    /\ \A i \in Events("execute") : i > 1 /\ mach.log[i - 1].e = "block"

\* C12 for execute(call, scope, global_scope), the evaluator of the forms of
\* src/calls.py
C12_OneExecutePerBlock_calls == impl = "calls" => C12_OneExecutePerBlock

\* the countdown from 1 is over: the function was invoked twice, once by itself,
\* inside one block that had pivoted to nested calls
C12_Witness ==
    /\ prog.fam = "recur" /\ prog.p = [from |-> "1", how |-> "let"] /\ Done /\ Ok(mach)
    /\ impl = "calls" /\ result = B(TRUE)
    /\ Cardinality(Events("call")) = 2 /\ Cardinality(Events("pivot")) > 2
    /\ Cardinality(Events("block")) = 1

\* the number of arguments of the call of an "arity" program, after *l is expanded
ArityGot == prog.p.written + prog.p.spliced
\* the values of these arguments: 1 .. written, then 4 .. from *l
ArityArgs ==
    [i \in 1..ArityGot |-> IF i <= prog.p.written THEN I(i) ELSE I(3 + i - prog.p.written)]
\* the arguments after the first `fixed`
ArityRest == Tup(SubSeq(ArityArgs, prog.p.fixed + 1, ArityGot))
\* whether that number violates the declared arity of foo
ArityViolated ==
    IF prog.p.variadic THEN ArityGot < prog.p.fixed ELSE ArityGot # prog.p.fixed
\* the run ended with an arity error that names foo and the number of arguments
ArityRejected ==
    /\ Done /\ mach.err.kind \in {"Arity", "WrongNumber"}
    /\ mach.err.sym = Sym(foo) /\ mach.err.n = ArityGot

\* C13: a call of the user function foo is rejected with the arity error, naming
\* foo and the number of arguments after *l is expanded, exactly when that number
\* is not the number of parameters (fixed arity) or is less than the number of
\* parameters other than * (variadic); on the direct and the maybe-call path.
C13_UserArity ==
    (prog.fam = "arity" /\ Done) =>
        IF ArityViolated THEN ArityRejected
        ELSE Ok(mach) /\ result = (IF prog.p.variadic THEN ArityRest ELSE I(7))

\* C13 where it holds: a call node built from the function at parse time, in both
\* files; through a maybe-call, src/calls.py unless *l is empty, src/main.py unless
\* a function of fixed arity gets too many arguments
C13_UserArity_where_validated ==
    (prog.fam = "arity"
        /\ \/ prog.p.path = "direct"
           \/ impl = "calls" /\ ~(prog.p.splice /\ prog.p.spliced = 0)
           \/ impl = "main" /\ (prog.p.variadic \/ ArityGot <= prog.p.fixed))
        => C13_UserArity

\* foo, of two parameters, was called with one argument written out and two more
\* from *l, and rejected with the count 3
C13_Witness ==
    /\ prog.fam = "arity" /\ prog.p.path = "direct" /\ ~prog.p.variadic
    /\ prog.p.fixed = 2 /\ prog.p.written = 1 /\ prog.p.spliced = 2
    /\ ArityRejected /\ mach.err.n = 3

\* the invocations of foo in an "arity" program
FooCalls == {i \in Events("call") : mach.log[i].cls.name = Sym(foo)}

\* C14: whenever a variadic function is invoked, `*` is bound in the scope of its
\* body; invoked with m >= n arguments, foo of n fixed parameters has its i-th
\* parameter bound to the i-th argument and `*` to the sequence of the other m - n
\* in their order, the empty sequence when m = n, and its body (+ *) returns that.
C14_VariadicBinding ==
    /\ \A i \in Events("call") :
          mach.log[i].cls.variadic =>
              Star \in DOMAIN mach.log[i].scope /\ mach.log[i].scope[Star].t = "tuple"
    /\ (prog.fam = "arity" /\ prog.p.variadic) =>
          /\ \A i \in FooCalls :
                LET scope == mach.log[i].scope
                IN  /\ ArityGot >= prog.p.fixed
                    /\ scope[Var("a")] = ArityArgs[1]
                    /\ prog.p.fixed = 2 => scope[Var("b")] = ArityArgs[2]
                    /\ scope[Star] = ArityRest
          /\ (Done /\ Ok(mach) /\ FooCalls # {}) => result = ArityRest

\* foo of two fixed parameters and * was invoked with exactly two arguments, one
\* of them from *l, and returned the empty sequence
C14_Witness ==
    /\ prog.fam = "arity" /\ prog.p.variadic /\ prog.p.fixed = 2 /\ Done /\ Ok(mach)
    /\ prog.p.written = 1 /\ prog.p.spliced = 1
    /\ FooCalls # {} /\ result = Tup(<<>>)

FormArgs == prog.p.written + prog.p.spliced
\* the global scope is the one the last block started with, and nothing was printed
NothingRan == mach.out = <<>> /\ mach.glob = BlockEvents[Len(BlockEvents)].global

\* C16: a let with fewer than 3 arguments, or an even number of them, counted after
\* *l is expanded, is rejected with the let arity error before a value expression
\* or the body is evaluated: nothing is printed and global is unchanged.
C16_LetArity ==
    (prog.fam = "letarity" /\ Done) =>
        IF FormArgs < 3 \/ FormArgs % 2 = 0
        THEN /\ mach.err.kind = "LetArity" /\ mach.err.n = FormArgs
             /\ NothingRan
        ELSE /\ Ok(mach)
             /\ prog.p.written >= 2 => mach.out = <<(<<I(7)>>)>>
             /\ prog.p.written = 4 <=> Sym(foo) \in DOMAIN mach.glob

\* a let with four arguments written out, among them (print 7) and a defun, and two
\* more from *l, was rejected
C16_Witness ==
    /\ prog.fam = "letarity" /\ Done /\ prog.p.written = 4 /\ prog.p.spliced = 2
    /\ mach.err.kind = "LetArity"

\* C17: a cond with fewer than 2 arguments, or an odd number of them, counted
\* after *l is expanded, is rejected with the cond arity error before a condition
\* or an action is evaluated: nothing is printed and global is unchanged.
C17_CondArity ==
    (prog.fam = "condarity" /\ Done) =>
        IF FormArgs < 2 \/ FormArgs % 2 = 1
        THEN /\ mach.err.kind = "CondArity" /\ mach.err.n = FormArgs
             /\ NothingRan
        ELSE /\ Ok(mach)
             /\ prog.p.written >= 1 => mach.out # <<>> /\ mach.out[1] = <<I(7)>>

\* a cond with three arguments written out, among them (print 7) and a defun, and
\* two more from *l, was rejected
C17_Witness ==
    /\ prog.fam = "condarity" /\ Done /\ prog.p.written = 3 /\ prog.p.spliced = 2
    /\ mach.err.kind = "CondArity"

\* the parameter list of a "star" program has '* before its last place; '* is its
\* last parameter
StarEarlier == \E i \in 1..(Len(prog.p.plist) - 1) : prog.p.plist[i] = "*"
StarLast == prog.p.plist # <<>> /\ prog.p.plist[Len(prog.p.plist)] = "*"
\* the functions a "star" program defined, the function list apart
StarDefined ==
    { mach.log[i].cls : i \in {j \in Events("defun") : mach.log[j].cls.name # S(list)} }

\* C18: a defun or lambda with '* among its parameters anywhere but last is rejected
\* with the star-must-be-last error and defines nothing, and a function that is
\* defined is variadic exactly when the last of its parameters is '*. (src/main.py
\* has no lambda.)
C18_StarMustBeLast ==
    (prog.fam = "star" /\ Done /\ (prog.p.kw = "lambda" => impl = "calls")) =>
        /\ StarEarlier => mach.err.kind = "StarNotLast" /\ StarDefined = {}
        /\ \A cls \in StarDefined : cls.variadic <=> StarLast

\* C18 where it holds: every lambda, and a defun whose name is not '*
C18_StarMustBeLast_name_not_star ==
    (prog.fam = "star" /\ (prog.p.kw = "lambda" \/ prog.p.head = "plain"))
        => C18_StarMustBeLast

\* (defun 'f '* 'a (+ 1)) was rejected and defined nothing
C18_Witness ==
    /\ prog.fam = "star" /\ Done /\ prog.p.kw = "defun" /\ prog.p.head = "plain"
    /\ prog.p.plist = <<"*", "a">> /\ StarEarlier
    /\ mach.err.kind = "StarNotLast" /\ StarDefined = {}

\* the elements of the sequence of a "splice" program, and the line its print is
\* to write: the elements in place of *l or **, the sequence itself in place of *
SpliceElements == [i \in 1..prog.p.count |-> I(3 + i)]
SpliceLine ==
    (IF prog.p.before THEN <<I(1)>> ELSE <<>>)
        \o (IF prog.p.tok = "star" THEN <<Tup(SpliceElements)>> ELSE SpliceElements)
        \o (IF prog.p.after THEN <<I(2)>> ELSE <<>>)

\* C19: an argument *NAME whose value is a sequence of k elements is replaced by
\* the k elements, in order and in its place, the arguments before and after it
\* staying where they are; the token * alone is an ordinary name whose value, the
\* sequence, is one argument.
C19_SpliceInPlace ==
    (prog.fam = "splice" /\ Done) => Ok(mach) /\ mach.out = <<SpliceLine>>

\* (print 1 *l 2) with l of three elements wrote 1 4 5 6 2
C19_Witness ==
    /\ prog.fam = "splice" /\ Done /\ impl = "calls"
    /\ prog.p = [tok |-> "name", count |-> 3, before |-> TRUE, after |-> TRUE]
    /\ mach.out = <<(<<I(1), I(4), I(5), I(6), I(2)>>)>>

\* what global is after the first n events of the log if nothing but the defuns
\* and lambdas among them wrote to it
RECURSIVE GlobalAfter(_)
GlobalAfter(n) ==
    IF n = 0 THEN StartGlobal
    ELSE IF mach.log[n].e = "defun"
         THEN DictSet(GlobalAfter(n - 1), mach.log[n].cls.name, mach.log[n].cls)
    ELSE GlobalAfter(n - 1)

\* C20: global changes only where a defun or lambda is applied: at every step it is
\* the starting table with the classes defined so far written into it, in order,
\* every block starts with exactly that, and no name is ever missing from it that
\* was in it before. let, if, cond, calls and the built-ins leave it as it is.
C20_GlobalOnlyGrowsByDefun ==
    /\ mach.glob = GlobalAfter(Len(mach.log))
    /\ \A i \in Events("block") : mach.log[i].global = GlobalAfter(i - 1)
    /\ \A n \in 1..Len(mach.log) : DOMAIN GlobalAfter(n - 1) \subseteq DOMAIN mach.glob

\* (let 'a (print 7) 'b (defun 'foo 'a (+ a)) 4) is over: a and b were bound, and
\* of the three names only foo is in global
C20_Witness ==
    /\ prog.fam = "letarity" /\ Done /\ Ok(mach)
    /\ prog.p = [written |-> 4, spliced |-> 1]
    /\ \E i \in Events("let") : {S(<<"a">>), S(<<"b">>)} \subseteq DOMAIN mach.log[i].bound
    /\ Sym(foo) \in DOMAIN mach.glob
    /\ S(<<"a">>) \notin DOMAIN mach.glob /\ S(<<"b">>) \notin DOMAIN mach.glob

\* repr of a value: a class shows its name, not which object it is
RECURSIVE Repr(_)
Repr(v) ==
    CASE v.t = "class" -> [t |-> "class", name |-> v.name]
      [] v.t = "tuple" -> [t |-> "tuple", v |-> [i \in 1..Len(v.v) |-> Repr(v.v[i])]]
      [] OTHER -> v
ReprLines(out) == [i \in 1..Len(out) |-> [j \in 1..Len(out[i]) |-> Repr(out[i][j])]]

\* C21: a run of a program that was run before in the same process starts with
\* the built-ins table as its global scope, holding nothing the earlier run
\* defined, and ends as the earlier run did: the same value (as it prints), the
\* same lines printed, the same error.
C21_RunsAreIndependent ==
    \A k \in 1..Len(earlier) :
      ~parse_first =>
        /\ \A i \in Events("block") :
               mach.log[i].idx = 0 => mach.log[i].global = StartGlobal
        /\ (phase = "idle" /\ idx = 0) => mach.glob = StartGlobal
        /\ Done => /\ Repr(result) = Repr(earlier[k].result)
                   /\ ReprLines(mach.out) = ReprLines(earlier[k].out)
                   /\ mach.err.kind = earlier[k].err.kind
                   /\ earlier[k].err.sym.t = "str" => mach.err.sym = earlier[k].err.sym
                   /\ DOMAIN mach.glob = DOMAIN earlier[k].glob

\* the program that prints 7 and defines foo was run a second time: foo was not
\* there when the run started, it printed 7 again and foo is defined again, by
\* another class object
C21_Witness ==
    /\ prog.fam = "letarity" /\ prog.p = [written |-> 4, spliced |-> 1] /\ Done
    /\ Len(earlier) = 1 /\ Sym(foo) \in DOMAIN earlier[1].glob
    /\ mach.out = <<(<<I(7)>>)>> /\ earlier[1].out = mach.out
    /\ Sym(foo) \in DOMAIN mach.glob /\ mach.glob[Sym(foo)] # earlier[1].glob[Sym(foo)]
    /\ \E i \in Events("block") : Sym(foo) \notin DOMAIN mach.log[i].global

\* the lines an "order" program is to print: one line per number, where that
\* argument is evaluated, and the line of None values of an enclosing print when
\* it is applied
Said(ks) == [i \in 1..Len(ks) |-> <<I(ks[i])>>]
Nones(n) == <<[i \in 1..n |-> None]>>
OrderLines ==
    CASE prog.p.shape = "print" -> Said(<<1, 2, 3>>) \o Nones(3)
      [] prog.p.shape = "nested" -> Said(<<1, 2>>) \o Nones(2) \o Said(<<3>>) \o Nones(2)
      [] prog.p.shape \in {"user", "maybe", "let"} -> Said(<<1, 2, 3>>)
      [] prog.p.shape = "if" -> Said(<<1, IF prog.p.first THEN 2 ELSE 3>>)
      [] prog.p.shape = "cond" ->
            Said(<<1, 3>>) \o (IF prog.p.first THEN Said(<<2>>)
                               ELSE IF prog.p.second THEN Said(<<4>>) ELSE <<>>)

\* C22: the argument calls of a call are evaluated from left to right, one after
\* the other, an inner call to its end before the next argument starts; if
\* evaluates its condition and then the branch it chose, let its values and then
\* its body, and cond all of its conditions, in order, and then the action it
\* chose.
C22_ArgumentOrder ==
    (prog.fam = "order" /\ Done) => Ok(mach) /\ mach.out = OrderLines

\* C22 where it holds: src/calls.py, and in src/main.py every form but a cond whose
\* first condition holds
C22_ArgumentOrder_all_conditions ==
    (prog.fam = "order"
        /\ (impl = "calls" \/ prog.p.shape # "cond" \/ ~prog.p.first))
        => C22_ArgumentOrder

\* (cond (not (print 1)) (print 2) (not (print 3)) (print 4)) printed 1, 3, 2
C22_Witness ==
    /\ prog.fam = "order" /\ Done /\ impl = "calls"
    /\ prog.p = [shape |-> "cond", first |-> TRUE, second |-> TRUE]
    /\ mach.out = Said(<<1, 3, 2>>)

\* the normalised text of a "parse" program, and where the bracket that closes the
\* one before position pos at this depth stands in it: 0 if it is never closed
Text == normalise(prog.p.src)
RECURSIVE CloseOf(_, _, _)
CloseOf(n, pos, depth) ==
    IF pos > Len(n) THEN 0
    ELSE IF n[pos] = "(" THEN CloseOf(n, pos + 1, depth + 1)
    ELSE IF n[pos] = ")" THEN IF depth = 1 THEN pos ELSE CloseOf(n, pos + 1, depth - 1)
    ELSE CloseOf(n, pos + 1, depth)
\* the first top-level block of the text that is malformed, counting the blocks
\* before it: it does not begin with a bracket, its bracket is never closed, or it
\* holds an empty call
RECURSIVE FirstMalformed(_, _, _)
FirstMalformed(n, pos, k) ==
    IF pos > Len(n) THEN [kind |-> "none", at |-> k]
    ELSE IF n[pos] # "(" THEN [kind |-> "CallMustBegin", at |-> k]
    ELSE IF CloseOf(n, pos + 1, 1) = 0 THEN [kind |-> "Unterminated", at |-> k]
    ELSE IF \E i \in pos..(CloseOf(n, pos + 1, 1) - 1) : n[i] = "(" /\ n[i + 1] = ")"
         THEN [kind |-> "Empty", at |-> k]
    ELSE FirstMalformed(n, CloseOf(n, pos + 1, 1) + 1, k + 1)
\* the innermost bracket that is never closed, and the word that follows it
LastOpen(n) ==
    CHOOSE i \in 1..Len(n) :
        /\ n[i] = "(" /\ CloseOf(n, i + 1, 1) = 0
        /\ \A j \in (i + 1)..Len(n) : ~(n[j] = "(" /\ CloseOf(n, j + 1, 1) = 0)
RECURSIVE Word(_, _)
Word(n, pos) ==
    IF pos > Len(n) \/ n[pos] \in {"(", ")", " "} THEN <<>>
    ELSE <<n[pos]>> \o Word(n, pos + 1)

\* C23: a run that comes to a malformed block ends there with a parse error, and
\* no run gets past one: a block whose bracket is never closed ends with the
\* unterminated-call error, which names the innermost call left open, a block that
\* does not begin with a bracket ends with the call-must-begin error, an empty
\* call ends with one of the two.
C23_MalformedIsParseError ==
    (prog.fam = "parse" /\ Done /\ FirstMalformed(Text, 1, 0).kind # "none") =>
        /\ ~Ok(mach) /\ idx <= FirstMalformed(Text, 1, 0).at
        /\ idx = FirstMalformed(Text, 1, 0).at =>
              /\ mach.err.kind \in {"Unterminated", "CallMustBegin"}
              /\ FirstMalformed(Text, 1, 0).kind # "Empty"
                    => mach.err.kind = FirstMalformed(Text, 1, 0).kind
              /\ (mach.err.kind = "Unterminated" /\ Word(Text, LastOpen(Text) + 1) # <<>>)
                    => mach.err.sym = S(Word(Text, LastOpen(Text) + 1))

\* C23 where it holds: a text with no call that is empty when it is closed or
\* when the text ends
C23_MalformedIsParseError_named_calls ==
    (prog.fam = "parse"
        /\ ~(\E i \in 1..Len(Text) : Text[i] = "(" /\ (i = Len(Text) \/ Text[i + 1] = ")")))
        => C23_MalformedIsParseError

\* (+ 1)(+ 1 ran its first block and ended with: unterminated call to +
C23_Witness ==
    /\ prog.fam = "parse" /\ Done /\ prog.p.src = Chars("(+ 1)(+ 1")
    /\ idx = 1 /\ result = I(1)
    /\ mach.err.kind = "Unterminated" /\ mach.err.sym = S(<<"+">>)

\* what the argument of a "resolveonce" program is once resolved or evaluated, as
\* it prints
GivenValue ==
    CASE prog.p.given = "int" -> I(5)
      [] prog.p.given = "symbol" -> S(<<"x">>)
      [] prog.p.given = "digits" -> S(<<"5">>)
      [] prog.p.given = "list" -> Tup(<<I(4)>>)
      [] prog.p.given = "function" -> [t |-> "class", name |-> S(list)]

\* C24: a value that resolution or evaluation produced is not resolved again: the
\* function called with the argument, directly or through a maybe-call, receives
\* the integer, the literal symbol, the list or the function itself, and the
\* literal symbol x is never looked up as the name x.
C24_ResolvedOnce ==
    (prog.fam = "resolveonce" /\ Done) =>
        /\ Ok(mach) /\ Repr(result) = [t |-> "tuple", v |-> <<GivenValue>>]
        /\ \A i \in Events("lookup") : mach.log[i].name # S(<<"x">>)

\* C24 where it holds: src/main.py, and in src/calls.py a call that is not a
\* maybe-call or whose argument is not a literal symbol
C24_ResolvedOnce_not_through_maybe ==
    (prog.fam = "resolveonce"
        /\ (impl = "main" \/ prog.p.how = "direct"
                \/ prog.p.given \notin {"symbol", "digits"}))
        => C24_ResolvedOnce

\* (g (list 4)) with g bound to list returned ((4)): the list was handed on as it
\* was
C24_Witness ==
    /\ prog.fam = "resolveonce" /\ Done /\ impl = "calls"
    /\ prog.p = [given |-> "list", how |-> "maybe", known |-> TRUE]
    /\ result = Tup(<<Tup(<<I(4)>>)>>)

\* the arguments of the maybe-call of a "maybeargs" program once evaluated
MaybeArgs ==
    [i \in 1..prog.p.lead |-> I(i)] \o [i \in 1..prog.p.len |-> I(3 + i)]
        \o (IF prog.p.trailing THEN <<None>> ELSE <<>>)

\* C25: a maybe-call whose selector is a function runs that function exactly once,
\* with the remaining arguments as evaluated (the body starts with * bound to
\* them, the argument call has printed once), and returns the function's result.
C25_MaybeCallsOnce ==
    (prog.fam = "maybeargs" /\ Done) =>
        /\ Ok(mach) /\ result = Tup(MaybeArgs)
        /\ mach.out = IF prog.p.trailing THEN Said(<<3>>) ELSE <<>>
        /\ Cardinality(FooCalls) = 1
        /\ \A i \in FooCalls : mach.log[i].scope[Star] = Tup(MaybeArgs)

\* C25 where it holds: src/main.py, and in src/calls.py a maybe-call whose
\* argument list keeps its written length when resolved, or grows with no
\* argument call after the expanded list
C25_MaybeCallsOnce_same_length ==
    (prog.fam = "maybeargs"
        /\ (impl = "main" \/ ~prog.p.expands \/ prog.p.len = 1
                \/ (prog.p.len = 2 /\ ~prog.p.trailing)))
        => C25_MaybeCallsOnce

\* (g 1 2 (print 3)) returned (1 2 None) after printing 3 once
C25_Witness ==
    /\ prog.fam = "maybeargs" /\ Done /\ impl = "calls"
    /\ prog.p = [lead |-> 2, expands |-> FALSE, len |-> 0, trailing |-> TRUE,
                 via |-> "name"]
    /\ result = Tup(<<I(1), I(2), None>>) /\ mach.out = Said(<<3>>)
    /\ Cardinality(FooCalls) = 1

\* what f of an "again" program returns for the argument n
AgainValue(n) ==
    CASE prog.p.kind = "sum" -> I(n + 1)
      [] prog.p.kind = "let" -> I(n + n)
      [] prog.p.kind = "if" -> I(IF n = 0 THEN 5 ELSE 6)
      [] prog.p.kind = "say" -> None
      [] prog.p.kind = "recur" -> B(TRUE)

\* C26: the body a user class keeps is never changed by invoking the function:
\* its flags stay unset, every invocation starts from the body the definition
\* stored, and a later invocation, also one made while an earlier one is still
\* running, returns what the first one with that argument returned.
C26_StoredBodyUnchanged ==
    /\ \A k \in DOMAIN mach.stored :
          mach.stored[k] = [resolved_symbols |-> FALSE, prepared |-> FALSE]
    /\ \A i \in Events("call") :
          \E j \in Events("defun") :
              /\ j < i /\ mach.log[j].cls.id = mach.log[i].cls.id
              /\ mach.log[i].cls.body = mach.log[j].cls.body
              /\ Flags(mach.log[i].cls.body) = [resolved_symbols |-> FALSE, prepared |-> FALSE]
    /\ (prog.fam = "again" /\ Done) =>
          /\ Ok(mach)
          /\ result = Tup(<<AgainValue(1), AgainValue(1), AgainValue(0)>>)
          /\ mach.out = IF prog.p.kind = "say" THEN Said(<<1, 1, 0>>) ELSE <<>>

\* f, whose body calls f again, was invoked five times in all and returned true
\* each time; the body it keeps has no flag set
C26_Witness ==
    /\ prog.fam = "again" /\ Done /\ impl = "calls"
    /\ prog.p = [kind |-> "recur", how |-> "direct"]
    /\ result = Tup(<<B(TRUE), B(TRUE), B(TRUE)>>)
    /\ Cardinality({i \in Events("call") : mach.log[i].cls.name = S(<<"f">>)}) = 5
    /\ \E k \in DOMAIN mach.stored : ~mach.stored[k].prepared

FrameStep(fr, to) ==
    /\ fr.pc = "resolve" => (to.pc = "eager" /\ to.prepared = fr.prepared /\ to.idx = 0)
    /\ fr.pc = "eager" => to.pc = "walk"
    /\ fr.pc = "walk" => to.pc = "walk"
    /\ to.prepared # fr.prepared =>
          /\ ~fr.prepared /\ fr.pc # "resolve" /\ to.idx = fr.idx
          /\ can_prepare(fr.call, fr.args, IF fr.pc = "eager" THEN -1 ELSE fr.idx)
    /\ (to.prepared = fr.prepared /\ fr.pc = "walk") =>
          /\ to.idx = fr.idx + 1 /\ to.args = fr.args /\ ~IsCallNode(fr.args[fr.idx + 1])
\* a frame is over: every argument was walked and none is a call
FrameOver(fr) == fr.idx = Len(fr.args) /\ \A i \in 1..Len(fr.args) : ~IsCallNode(fr.args[i])
ProtocolStep ==
    (impl = "calls" /\ phase = "exec" /\ phase' # "done") =>
        IF phase' = "idle" THEN Len(stack) = 1 /\ FrameOver(Top) /\ result' = mach'.val
        ELSE CASE Len(stack') = Len(stack) -> FrameStep(Top, stack'[Len(stack')])
               [] Len(stack') = Len(stack) + 1 ->
                     /\ Top.pc = "walk" /\ stack'[Len(stack')].pc = "resolve"
                     /\ stack'[Len(stack')].call = Top.args[Top.idx + 1]
                     /\ SubSeq(stack', 1, Len(stack)) = stack
               [] Len(stack') = Len(stack) - 1 ->
                     /\ FrameOver(Top)
                     /\ LET parent == stack[Len(stack) - 1]
                        IN  /\ IsCallNode(parent.args[parent.idx + 1])
                            /\ parent.args[parent.idx + 1].args = Top.call.args
                            /\ stack'[Len(stack')] =
                                   [parent EXCEPT !.args[parent.idx + 1] = mach'.val]
               [] OTHER -> FALSE
\* the programs in which no call is written twice; their function bodies, which
\* are evaluated once per invocation, hold no calls
WrittenOnce == prog.fam \in {"order", "maybeargs", "splice", "resolveonce"}
Bodies == {mach.log[d].cls.body : d \in Events("defun")}
\* the events of a kind about the nodes the program text holds
OfWritten(kind) == {i \in Events(kind) : mach.log[i].call \notin Bodies}
\* every node that was evaluated was evaluated once, and every apply got values
NodesOnce ==
    /\ \A i \in Events("apply") :
          \A k \in 1..Len(mach.log[i].args) : ~IsCallNode(mach.log[i].args[k])
    /\ WrittenOnce =>
          /\ \A i, j \in OfWritten("pivot") : mach.log[i].call = mach.log[j].call => i = j
          /\ \A i, j \in OfWritten("execute") : mach.log[i].call = mach.log[j].call => i = j
          /\ \A i, j \in OfWritten("apply") : mach.log[i].call = mach.log[j].call => i = j

\* C28: within one evaluation a node's arguments are resolved once, before its
\* prepare and before its argument calls are evaluated; its prepare runs at most
\* once, where can_prepare holds; its apply runs once, when no argument is a call
\* any more; its result replaces it in the parent's argument list.
C28_NodeProtocol == [][ProtocolStep]_vars /\ []NodesOnce

\* C28 where it holds: all but the maybe-calls of src/calls.py that prepare while
\* an argument call is still to be evaluated
C28_NodeProtocol_prepared_in_time ==
    [][ProtocolStep]_vars
        /\ [](~(impl = "calls" /\ prog.fam = "maybeargs" /\ prog.p.expands
                    /\ prog.p.len = 2 /\ prog.p.trailing) => NodesOnce)

\* (g (print 1) (print 2) (print 3)) is over: three nodes and the function's own
\* were evaluated, each once, and the three lines are printed
C28_Witness ==
    /\ prog.fam = "order" /\ prog.p.shape = "maybe" /\ impl = "calls" /\ Done /\ Ok(mach)
    /\ Cardinality(Events("pivot")) >= 5
    /\ Cardinality(Events("apply")) = Cardinality(Events("pivot")) + Cardinality(Events("execute"))
    /\ mach.out = Said(<<1, 2, 3>>)

\* what the function f is bound to when (f 0) is evaluated returns: the local
\* scope first, then the global scope
BoundAtEvaluation ==
    CASE prog.p.rebind = "none" -> I(1)
      [] prog.p.rebind \in {"let", "both"} -> I(2)
      [] prog.p.rebind = "defun" -> I(3)

\* C29: the function a call (f 0) invokes is the one f is bound to when the call
\* is evaluated, in the local scope first and then in the global scope, whether
\* or not f was in the global scope when the call was parsed.
C29_BoundAtEvaluation ==
    (prog.fam = "binding" /\ Done) => (Ok(mach) /\ result = BoundAtEvaluation)

\* C29 as the code has it: a call whose name was in the global scope when it was
\* parsed invokes the class the name had then, whatever a let or a defun bound it
\* to since; only a name that was not there is looked up when the call is
\* evaluated, in the local scope first and then in the global scope.
C29_BoundAtParseIfKnown ==
    (prog.fam = "binding" /\ Done) =>
        /\ Ok(mach)
        /\ result = IF prog.p.known THEN I(1) ELSE BoundAtEvaluation

\* (let 'f h (f 0)) with f in the global scope when it was parsed returned 1, what
\* the global f returns, not the 2 of h
C29_Witness ==
    /\ prog.fam = "binding" /\ Done /\ Ok(mach) /\ impl = "calls"
    /\ prog.p = [known |-> TRUE, rebind |-> "let"]
    /\ result = I(1)

\* the leaves of the argument of a "flatten" program, left to right, a string
\* among them whole, and the characters of an argument that is a string
FlattenLeaves ==
    CASE prog.p.given = "empty" -> <<>>
      [] prog.p.given = "flat" -> <<I(1), I(2)>>
      [] prog.p.given \in {"nested", "deep"} -> <<I(1), I(2), I(3)>>
      [] prog.p.given = "string" -> <<S(<<"a">>), S(<<"b">>)>>
      [] prog.p.given = "strings" -> <<S(<<"a", "b">>), S(<<"c">>), I(1)>>
      [] prog.p.given = "blank" -> <<S(<<>>), I(1)>>
      [] OTHER -> <<>>
FlattenOfStrings == prog.p.given \in {"string", "strings", "blank"}

\* C30: flatten of a nested list ends and returns the leaves in order, a string
\* among them kept whole; of a string it returns the characters; of a value that
\* is no sequence it raises the flatten-not-a-list error.
C30_Flatten ==
    (prog.fam = "flatten" /\ Done) =>
        IF prog.p.given \in {"int", "none", "function"}
        THEN mach.err.kind = "FlattenNotList"
        ELSE Ok(mach) /\ result = Tup(FlattenLeaves)

\* C30 where it holds: lists that hold no string, and values that are no sequence
C30_Flatten_without_strings ==
    (prog.fam = "flatten" /\ ~FlattenOfStrings) => C30_Flatten

\* (flatten (list (list (list 1)) (list) (list 2 (list 3)))) returned (1 2 3)
C30_Witness ==
    /\ prog.fam = "flatten" /\ prog.p = [given |-> "deep", how |-> "direct"]
    /\ Done /\ Ok(mach) /\ result = Tup(<<I(1), I(2), I(3)>>) /\ impl = "calls"

====
